---------------------------- MODULE Spec2Model ----------------------------
(***************************************************************************)
(* Model of the YAML dump file backend of python-icat                      *)
(* (src/icat/dumpfile_yaml.py) over the entity schema of                   *)
(* src/icat/entities.py: the encoder entity2dict, the decoder dict2entity, *)
(* the chunk reader YAMLDumpFileReader.getobjs and the chunk writer        *)
(* YAMLDumpFileWriter; and of the HTTP handler and connection with chunked *)
(* transfer encoding (src/icat/chunkedhttp.py).                            *)
(*                                                                         *)
(* Four specifications share the module:                                   *)
(*   Spec       the writer driven by head/startdata/add/finalize calls,    *)
(*   SpecReader the reader's generator and the restore loop pulling it,    *)
(*   SpecCodec  entity2dict and dict2entity applied to bounded inputs,     *)
(*   SpecHttp   the chunked HTTP handler and connection serving a request. *)
(***************************************************************************)
EXTENDS Integers, Sequences, FiniteSets, TLC

VARIABLES
  \* ---- YAMLDumpFileWriter
  data,      \* self.data: tag -> (key -> record)
  out,       \* what was written to self.outfile, one entry per write
  wres,      \* outcome of the last writer call: "ok" or the exception raised
  wop,       \* the last two writer calls, oldest first
  \* ---- YAMLDumpFileReader and the restore loop
  stream,    \* the chunks yaml.load_all() yields, in order
  ci,        \* index of the chunk being read (Len(stream)+1: exhausted)
  gen,       \* frame of the getobjs generator: [ti, todo, live], ti the
             \* index of name in entitytypes, todo the keys of data[name]
             \* still to come
  yq,        \* entities yielded by getobjs and not yet handled by the caller
  objindex,  \* the key index of the restore: key -> created object
  created,   \* create calls issued by the restore loop, in order
  rres,      \* "ok", or the exception that ended the restore
  trace,     \* one entry per dict2entity call made by getobjs
  \* ---- encoder / decoder applied to one input
  cobj,      \* the entity given to entity2dict
  crec,      \* the record given to dict2entity
  ctype,     \* the type tag given to dict2entity
  ckeyindex, \* the keyindex as it is given to entity2dict: object id -> key
  ckeyafter, \* the content of that keyindex dict when the call has ended
  cidx,      \* the objindex given to dict2entity: key -> object
  cenc,      \* result of entity2dict(cobj, ...)
  cdec,      \* result of dict2entity(..., crec, ctype, cidx)
  cpc,       \* "obj": an entity is given, "rec": a record is given,
             \* then "encoded", "roundtrip" (decoded the encoder's record),
             \* "added" (the entity was given to add() of a new writer),
             \* "decoded" (decoded the given record)
  \* ---- ChunkedHTTPHandler and ChunkedHTTPConnection serving one request
  request,    \* the urllib2 request: host, data, method, has_proxy, headers
              \* and unredirected_hdrs
  addheaders, \* self.parent.addheaders of the handler
  putheaders, \* the headers _send_request() handed to putheader()
  sent,       \* the arguments of the self.send() calls of send_body()
  hres,       \* outcome of the last call: "ok" or the exception raised
  hpc         \* "request", then "handled" or "rejected" (do_request_),
              \* then "sent" or "failed" (_send_request)

wvars == <<data, out, wres, wop>>
rvars == <<stream, ci, gen, yq, objindex, created, rres, trace>>
cvars == <<cobj, crec, ctype, ckeyindex, ckeyafter, cidx, cenc, cdec, cpc>>
hvars == <<request, addheaders, putheaders, sent, hres, hpc>>
vars  == <<data, out, wres, wop,
           stream, ci, gen, yq, objindex, created, rres, trace,
           cobj, crec, ctype, ckeyindex, ckeyafter, cidx, cenc, cdec, cpc,
           request, addheaders, putheaders, sent, hres, hpc>>

(***************************************************************************)
(* Bounds of the model.                                                    *)
(***************************************************************************)
\* Most entries (headers and chunk documents) the writer's output may hold.
MaxOut == 2
\* Most chunks in the stream the reader is given.
MaxChunks == 2

(***************************************************************************)
(* entitytypes: the list of type tags, in restore order.                   *)
(***************************************************************************)
entitytypes ==
  << "user", "grouping", "rule", "publicStep", "facility", "instrument",
     "parameterType", "investigationType", "sampleType", "datasetType",
     "datafileFormat", "facilityCycle", "application", "investigation",
     "study", "sample", "dataset", "datafile", "relatedDatafile",
     "dataCollection", "job" >>

\* tag in entitytypes
IsEntityType(tag) == \E i \in 1..Len(entitytypes) : entitytypes[i] = tag

\* entitytypes.index(tag), 1-based; 0 when the tag is not in the list
TypeIndex(tag) ==
  IF IsEntityType(tag)
  THEN CHOOSE i \in 1..Len(entitytypes) : entitytypes[i] = tag
  ELSE 0

(***************************************************************************)
(* The entity classes of icat.entities: the class attributes InstAttr,     *)
(* InstRel and InstMRel of every class, inherited ones included.  A class  *)
(* that overrides none inherits the base class Entity's: InstAttr = {id},  *)
(* InstRel = InstMRel = {}.                                                *)
(***************************************************************************)
InstAttr(cls) ==
  CASE cls = "Parameter" -> {"id", "numericValue", "dateTimeValue",
          "stringValue", "rangeBottom", "rangeTop", "error"}
    [] cls = "Application" -> {"id", "name", "version"}
    [] cls = "Application43" -> {"id", "name", "version"}
    [] cls = "DataCollection" -> {"id"}
    [] cls = "DataCollectionDatafile" -> {"id"}
    [] cls = "DataCollectionDataset" -> {"id"}
    [] cls = "DataCollectionParameter" -> {"id", "numericValue",
          "dateTimeValue", "stringValue", "rangeBottom", "rangeTop", "error"}
    [] cls = "Datafile" -> {"id", "name", "description", "location",
          "fileSize", "checksum", "datafileCreateTime", "datafileModTime",
          "doi"}
    [] cls = "Datafile43" -> {"id", "name", "description", "location",
          "fileSize", "checksum", "datafileCreateTime", "datafileModTime",
          "doi"}
    [] cls = "DatafileFormat" -> {"id", "name", "description", "version",
          "type"}
    [] cls = "DatafileParameter" -> {"id", "numericValue", "dateTimeValue",
          "stringValue", "rangeBottom", "rangeTop", "error"}
    [] cls = "Dataset" -> {"id", "name", "description", "location",
          "startDate", "endDate", "complete", "doi"}
    [] cls = "Dataset43" -> {"id", "name", "description", "location",
          "startDate", "endDate", "complete", "doi"}
    [] cls = "DatasetParameter" -> {"id", "numericValue", "dateTimeValue",
          "stringValue", "rangeBottom", "rangeTop", "error"}
    [] cls = "DatasetType" -> {"id", "name", "description"}
    [] cls = "Facility" -> {"id", "name", "fullName", "description", "url",
          "daysUntilRelease"}
    [] cls = "Facility43" -> {"id", "name", "fullName", "description", "url",
          "daysUntilRelease"}
    [] cls = "FacilityCycle" -> {"id", "name", "description", "startDate",
          "endDate"}
    [] cls = "FacilityCycle43" -> {"id", "name", "description", "startDate",
          "endDate"}
    [] cls = "Group" -> {"id", "name"}
    [] cls = "Group43" -> {"id", "name"}
    [] cls = "InputDatafile" -> {"id"}
    [] cls = "InputDataset" -> {"id"}
    [] cls = "Instrument" -> {"id", "name", "fullName", "description", "type"}
    [] cls = "Instrument43" -> {"id", "name", "fullName", "description",
          "type", "url"}
    [] cls = "InstrumentScientist" -> {"id"}
    [] cls = "Investigation" -> {"id", "name", "title", "summary", "doi",
          "visitId", "startDate", "endDate", "releaseDate"}
    [] cls = "Investigation43" -> {"id", "name", "title", "summary", "doi",
          "visitId", "startDate", "endDate", "releaseDate"}
    [] cls = "InvestigationInstrument" -> {"id"}
    [] cls = "InvestigationParameter" -> {"id", "numericValue",
          "dateTimeValue", "stringValue", "rangeBottom", "rangeTop", "error"}
    [] cls = "InvestigationType" -> {"id", "name", "description"}
    [] cls = "InvestigationUser" -> {"id", "role"}
    [] cls = "Job" -> {"id"}
    [] cls = "Job43" -> {"id", "arguments"}
    [] cls = "Keyword" -> {"id", "name"}
    [] cls = "NotificationRequest" -> {"id", "name", "what", "crudFlags",
          "datatypes", "destType", "jmsOptions"}
    [] cls = "Log" -> {"id", "query", "operation", "entityId", "entityName",
          "duration"}
    [] cls = "OutputDatafile" -> {"id"}
    [] cls = "OutputDataset" -> {"id"}
    [] cls = "ParameterType" -> {"id", "name", "description", "valueType",
          "units", "unitsFullName", "minimumNumericValue",
          "maximumNumericValue", "enforced", "verified",
          "applicableToDatafile", "applicableToDataset", "applicableToSample",
          "applicableToInvestigation"}
    [] cls = "ParameterType43" -> {"id", "name", "description", "valueType",
          "units", "unitsFullName", "minimumNumericValue",
          "maximumNumericValue", "enforced", "verified",
          "applicableToDatafile", "applicableToDataset", "applicableToSample",
          "applicableToInvestigation", "applicableToDataCollection"}
    [] cls = "PermissibleStringValue" -> {"id", "value"}
    [] cls = "PublicStep" -> {"id", "origin", "field"}
    [] cls = "Publication" -> {"id", "fullReference", "url", "doi",
          "repository", "repositoryId"}
    [] cls = "RelatedDatafile" -> {"id", "relation"}
    [] cls = "Rule" -> {"id", "what", "crudFlags"}
    [] cls = "Rule43" -> {"id", "what", "crudFlags"}
    [] cls = "Sample" -> {"id", "name"}
    [] cls = "SampleParameter" -> {"id", "numericValue", "dateTimeValue",
          "stringValue", "rangeBottom", "rangeTop", "error"}
    [] cls = "SampleType" -> {"id", "name", "molecularFormula",
          "safetyInformation"}
    [] cls = "Shift" -> {"id", "comment", "startDate", "endDate"}
    [] cls = "Study" -> {"id", "name", "description", "status", "startDate"}
    [] cls = "StudyInvestigation" -> {"id"}
    [] cls = "User" -> {"id", "name", "fullName"}
    [] cls = "UserGroup" -> {"id"}
    [] cls = "UserGroup43" -> {"id"}
    [] OTHER -> {"id"}

InstRel(cls) ==
  CASE cls = "Parameter" -> {"type"}
    [] cls = "Application" -> {}
    [] cls = "Application43" -> {"facility"}
    [] cls = "DataCollection" -> {}
    [] cls = "DataCollectionDatafile" -> {"dataCollection", "datafile"}
    [] cls = "DataCollectionDataset" -> {"dataCollection", "dataset"}
    [] cls = "DataCollectionParameter" -> {"dataCollection", "type"}
    [] cls = "Datafile" -> {"datafileFormat", "dataset"}
    [] cls = "Datafile43" -> {"datafileFormat", "dataset"}
    [] cls = "DatafileFormat" -> {"facility"}
    [] cls = "DatafileParameter" -> {"datafile", "type"}
    [] cls = "Dataset" -> {"type", "sample", "investigation"}
    [] cls = "Dataset43" -> {"type", "sample", "investigation"}
    [] cls = "DatasetParameter" -> {"dataset", "type"}
    [] cls = "DatasetType" -> {"facility"}
    [] cls = "Facility" -> {}
    [] cls = "Facility43" -> {}
    [] cls = "FacilityCycle" -> {"facility"}
    [] cls = "FacilityCycle43" -> {"facility"}
    [] cls = "Group" -> {}
    [] cls = "Group43" -> {}
    [] cls = "InputDatafile" -> {"job", "datafile"}
    [] cls = "InputDataset" -> {"job", "dataset"}
    [] cls = "Instrument" -> {"facility"}
    [] cls = "Instrument43" -> {"facility"}
    [] cls = "InstrumentScientist" -> {"user", "instrument"}
    [] cls = "Investigation" -> {"type", "facility", "instrument",
          "facilityCycle"}
    [] cls = "Investigation43" -> {"type", "facility"}
    [] cls = "InvestigationInstrument" -> {"investigation", "instrument"}
    [] cls = "InvestigationParameter" -> {"investigation", "type"}
    [] cls = "InvestigationType" -> {"facility"}
    [] cls = "InvestigationUser" -> {"user", "investigation"}
    [] cls = "Job" -> {"application"}
    [] cls = "Job43" -> {"application", "inputDataCollection",
          "outputDataCollection"}
    [] cls = "Keyword" -> {"investigation"}
    [] cls = "NotificationRequest" -> {}
    [] cls = "Log" -> {}
    [] cls = "OutputDatafile" -> {"job", "datafile"}
    [] cls = "OutputDataset" -> {"job", "dataset"}
    [] cls = "ParameterType" -> {"facility"}
    [] cls = "ParameterType43" -> {"facility"}
    [] cls = "PermissibleStringValue" -> {"type"}
    [] cls = "PublicStep" -> {}
    [] cls = "Publication" -> {"investigation"}
    [] cls = "RelatedDatafile" -> {"sourceDatafile", "destDatafile"}
    [] cls = "Rule" -> {"group"}
    [] cls = "Rule43" -> {"grouping"}
    [] cls = "Sample" -> {"type", "investigation"}
    [] cls = "SampleParameter" -> {"sample", "type"}
    [] cls = "SampleType" -> {"facility"}
    [] cls = "Shift" -> {"investigation"}
    [] cls = "Study" -> {"user"}
    [] cls = "StudyInvestigation" -> {"study", "investigation"}
    [] cls = "User" -> {}
    [] cls = "UserGroup" -> {"user", "group"}
    [] cls = "UserGroup43" -> {"user", "grouping"}
    [] OTHER -> {}

InstMRel(cls) ==
  CASE cls = "Parameter" -> {}
    [] cls = "Application" -> {"jobs"}
    [] cls = "Application43" -> {"jobs"}
    [] cls = "DataCollection" -> {"dataCollectionDatafiles",
          "dataCollectionDatasets", "dataCollectionParameters", "jobsAsInput",
          "jobsAsOutput"}
    [] cls = "DataCollectionDatafile" -> {}
    [] cls = "DataCollectionDataset" -> {}
    [] cls = "DataCollectionParameter" -> {}
    [] cls = "Datafile" -> {"parameters", "inputDatafiles", "outputDatafiles",
          "sourceDatafiles", "destDatafiles"}
    [] cls = "Datafile43" -> {"parameters", "dataCollectionDatafiles",
          "sourceDatafiles", "destDatafiles"}
    [] cls = "DatafileFormat" -> {"datafiles"}
    [] cls = "DatafileParameter" -> {}
    [] cls = "Dataset" -> {"parameters", "datafiles", "inputDatasets",
          "outputDatasets"}
    [] cls = "Dataset43" -> {"parameters", "datafiles",
          "dataCollectionDatasets"}
    [] cls = "DatasetParameter" -> {}
    [] cls = "DatasetType" -> {"datasets"}
    [] cls = "Facility" -> {"instruments", "facilityCycles", "investigations",
          "parameterTypes", "datafileFormats", "datasetTypes", "sampleTypes",
          "investigationTypes"}
    [] cls = "Facility43" -> {"instruments", "facilityCycles",
          "investigations", "parameterTypes", "datafileFormats",
          "datasetTypes", "sampleTypes", "investigationTypes", "applications"}
    [] cls = "FacilityCycle" -> {"investigations"}
    [] cls = "FacilityCycle43" -> {}
    [] cls = "Group" -> {"userGroups", "rules"}
    [] cls = "Group43" -> {"userGroups", "rules"}
    [] cls = "InputDatafile" -> {}
    [] cls = "InputDataset" -> {}
    [] cls = "Instrument" -> {"instrumentScientists", "investigations"}
    [] cls = "Instrument43" -> {"instrumentScientists",
          "investigationInstruments"}
    [] cls = "InstrumentScientist" -> {}
    [] cls = "Investigation" -> {"parameters", "investigationUsers",
          "keywords", "publications", "samples", "datasets", "shifts",
          "studyInvestigations"}
    [] cls = "Investigation43" -> {"parameters", "investigationInstruments",
          "investigationUsers", "keywords", "publications", "samples",
          "datasets", "shifts", "studyInvestigations"}
    [] cls = "InvestigationInstrument" -> {}
    [] cls = "InvestigationParameter" -> {}
    [] cls = "InvestigationType" -> {"investigations"}
    [] cls = "InvestigationUser" -> {}
    [] cls = "Job" -> {"inputDatafiles", "inputDatasets", "outputDatafiles",
          "outputDatasets"}
    [] cls = "Job43" -> {}
    [] cls = "Keyword" -> {}
    [] cls = "NotificationRequest" -> {}
    [] cls = "Log" -> {}
    [] cls = "OutputDatafile" -> {}
    [] cls = "OutputDataset" -> {}
    [] cls = "ParameterType" -> {"datafileParameters", "datasetParameters",
          "sampleParameters", "investigationParameters",
          "permissibleStringValues"}
    [] cls = "ParameterType43" -> {"datafileParameters", "datasetParameters",
          "sampleParameters", "investigationParameters",
          "dataCollectionParameters", "permissibleStringValues"}
    [] cls = "PermissibleStringValue" -> {}
    [] cls = "PublicStep" -> {}
    [] cls = "Publication" -> {}
    [] cls = "RelatedDatafile" -> {}
    [] cls = "Rule" -> {}
    [] cls = "Rule43" -> {}
    [] cls = "Sample" -> {"parameters", "datasets"}
    [] cls = "SampleParameter" -> {}
    [] cls = "SampleType" -> {"samples"}
    [] cls = "Shift" -> {}
    [] cls = "Study" -> {"studyInvestigations"}
    [] cls = "StudyInvestigation" -> {}
    [] cls = "User" -> {"investigationUsers", "instrumentScientists",
          "userGroups", "studies"}
    [] cls = "UserGroup" -> {}
    [] cls = "UserGroup43" -> {}
    [] OTHER -> {}

BeanName(cls) ==
  CASE cls = "Application" -> "Application"
    [] cls = "Application43" -> "Application"
    [] cls = "DataCollection" -> "DataCollection"
    [] cls = "DataCollectionDatafile" -> "DataCollectionDatafile"
    [] cls = "DataCollectionDataset" -> "DataCollectionDataset"
    [] cls = "DataCollectionParameter" -> "DataCollectionParameter"
    [] cls = "Datafile" -> "Datafile"
    [] cls = "Datafile43" -> "Datafile"
    [] cls = "DatafileFormat" -> "DatafileFormat"
    [] cls = "DatafileParameter" -> "DatafileParameter"
    [] cls = "Dataset" -> "Dataset"
    [] cls = "Dataset43" -> "Dataset"
    [] cls = "DatasetParameter" -> "DatasetParameter"
    [] cls = "DatasetType" -> "DatasetType"
    [] cls = "Facility" -> "Facility"
    [] cls = "Facility43" -> "Facility"
    [] cls = "FacilityCycle" -> "FacilityCycle"
    [] cls = "FacilityCycle43" -> "FacilityCycle"
    [] cls = "Group" -> "Group"
    [] cls = "Group43" -> "Grouping"
    [] cls = "InputDatafile" -> "InputDatafile"
    [] cls = "InputDataset" -> "InputDataset"
    [] cls = "Instrument" -> "Instrument"
    [] cls = "Instrument43" -> "Instrument"
    [] cls = "InstrumentScientist" -> "InstrumentScientist"
    [] cls = "Investigation" -> "Investigation"
    [] cls = "Investigation43" -> "Investigation"
    [] cls = "InvestigationInstrument" -> "InvestigationInstrument"
    [] cls = "InvestigationParameter" -> "InvestigationParameter"
    [] cls = "InvestigationType" -> "InvestigationType"
    [] cls = "InvestigationUser" -> "InvestigationUser"
    [] cls = "Job" -> "Job"
    [] cls = "Job43" -> "Job"
    [] cls = "Keyword" -> "Keyword"
    [] cls = "NotificationRequest" -> "NotificationRequest"
    [] cls = "Log" -> "Log"
    [] cls = "OutputDatafile" -> "OutputDatafile"
    [] cls = "OutputDataset" -> "OutputDataset"
    [] cls = "ParameterType" -> "ParameterType"
    [] cls = "ParameterType43" -> "ParameterType"
    [] cls = "PermissibleStringValue" -> "PermissibleStringValue"
    [] cls = "PublicStep" -> "PublicStep"
    [] cls = "Publication" -> "Publication"
    [] cls = "RelatedDatafile" -> "RelatedDatafile"
    [] cls = "Rule" -> "Rule"
    [] cls = "Rule43" -> "Rule"
    [] cls = "Sample" -> "Sample"
    [] cls = "SampleParameter" -> "SampleParameter"
    [] cls = "SampleType" -> "SampleType"
    [] cls = "Shift" -> "Shift"
    [] cls = "Study" -> "Study"
    [] cls = "StudyInvestigation" -> "StudyInvestigation"
    [] cls = "User" -> "User"
    [] cls = "UserGroup" -> "UserGroup"
    [] cls = "UserGroup43" -> "UserGroup"
    [] OTHER -> "None"

(***************************************************************************)
(* Collaborators that live outside the dump file backend: the client's     *)
(* type map and entity info (ICAT 4.3), Entity.getUniqueKey,               *)
(* Entity.__sortkey__ and Client.searchUniqueKey.                          *)
(***************************************************************************)
\* client.typemap: type tag -> entity class (ICAT 4.3 variant)
TypeMap(tag) ==
  CASE tag = "user" -> "User"
    [] tag = "grouping" -> "Group43"
    [] tag = "rule" -> "Rule43"
    [] tag = "publicStep" -> "PublicStep"
    [] tag = "facility" -> "Facility43"
    [] tag = "instrument" -> "Instrument43"
    [] tag = "parameterType" -> "ParameterType43"
    [] tag = "investigationType" -> "InvestigationType"
    [] tag = "sampleType" -> "SampleType"
    [] tag = "datasetType" -> "DatasetType"
    [] tag = "datafileFormat" -> "DatafileFormat"
    [] tag = "facilityCycle" -> "FacilityCycle43"
    [] tag = "application" -> "Application43"
    [] tag = "investigation" -> "Investigation43"
    [] tag = "study" -> "Study"
    [] tag = "sample" -> "Sample"
    [] tag = "dataset" -> "Dataset43"
    [] tag = "datafile" -> "Datafile43"
    [] tag = "relatedDatafile" -> "RelatedDatafile"
    [] tag = "dataCollection" -> "DataCollection"
    [] tag = "job" -> "Job43"
    [] tag = "datasetParameter" -> "DatasetParameter"
    [] tag = "datafileParameter" -> "DatafileParameter"
    [] tag = "sampleParameter" -> "SampleParameter"
    [] tag = "investigationParameter" -> "InvestigationParameter"
    [] tag = "dataCollectionParameter" -> "DataCollectionParameter"
    [] tag = "dataCollectionDatafile" -> "DataCollectionDatafile"
    [] tag = "dataCollectionDataset" -> "DataCollectionDataset"
    [] tag = "userGroup" -> "UserGroup43"
    [] tag = "instrumentScientist" -> "InstrumentScientist"
    [] tag = "investigationInstrument" -> "InvestigationInstrument"
    [] tag = "investigationUser" -> "InvestigationUser"
    [] tag = "keyword" -> "Keyword"
    [] tag = "publication" -> "Publication"
    [] tag = "shift" -> "Shift"
    [] tag = "studyInvestigation" -> "StudyInvestigation"
    [] tag = "permissibleStringValue" -> "PermissibleStringValue"
    [] tag = "log" -> "Log"
    [] tag = "notificationRequest" -> "NotificationRequest"
    [] OTHER -> "None"

\* mreltypes[attr] of dict2entity: the type tag of the children of a to-many
\* relation, from client.getEntityInfo(BeanName) and insttypemap
MRelType(cls, attr) ==
  CASE attr = "parameters" /\ cls \in {"Dataset", "Dataset43"}
         -> "datasetParameter"
    [] attr = "parameters" /\ cls \in {"Datafile", "Datafile43"}
         -> "datafileParameter"
    [] attr = "parameters" /\ cls = "Sample" -> "sampleParameter"
    [] attr = "parameters" /\ cls \in {"Investigation", "Investigation43"}
         -> "investigationParameter"
    [] attr = "jobs" -> "job"
    [] attr \in {"jobsAsInput", "jobsAsOutput"} -> "job"
    [] attr = "dataCollectionDatafiles" -> "dataCollectionDatafile"
    [] attr = "dataCollectionDatasets" -> "dataCollectionDataset"
    [] attr = "dataCollectionParameters" -> "dataCollectionParameter"
    [] attr \in {"sourceDatafiles", "destDatafiles"} -> "relatedDatafile"
    [] attr = "datafiles" -> "datafile"
    [] attr = "datasets" -> "dataset"
    [] attr = "instruments" -> "instrument"
    [] attr = "facilityCycles" -> "facilityCycle"
    [] attr = "investigations" -> "investigation"
    [] attr = "parameterTypes" -> "parameterType"
    [] attr = "datafileFormats" -> "datafileFormat"
    [] attr = "datasetTypes" -> "datasetType"
    [] attr = "sampleTypes" -> "sampleType"
    [] attr = "investigationTypes" -> "investigationType"
    [] attr = "applications" -> "application"
    [] attr = "userGroups" -> "userGroup"
    [] attr = "rules" -> "rule"
    [] attr = "instrumentScientists" -> "instrumentScientist"
    [] attr = "investigationInstruments" -> "investigationInstrument"
    [] attr = "investigationUsers" -> "investigationUser"
    [] attr = "keywords" -> "keyword"
    [] attr = "publications" -> "publication"
    [] attr = "samples" -> "sample"
    [] attr = "shifts" -> "shift"
    [] attr = "studyInvestigations" -> "studyInvestigation"
    [] attr = "datafileParameters" -> "datafileParameter"
    [] attr = "datasetParameters" -> "datasetParameter"
    [] attr = "sampleParameters" -> "sampleParameter"
    [] attr = "investigationParameters" -> "investigationParameter"
    [] attr = "permissibleStringValues" -> "permissibleStringValue"
    [] attr = "studies" -> "study"
    [] attr = "inputDatafiles" -> "inputDatafile"
    [] attr = "outputDatafiles" -> "outputDatafile"
    [] attr = "inputDatasets" -> "inputDataset"
    [] attr = "outputDatasets" -> "outputDataset"
    [] OTHER -> "None"

\* client.typemap of a client talking to ICAT 4.2: the classes without the
\* 4.3 overrides; group is the 4.2 name of grouping, and publicStep, the
\* data collection types and investigationInstrument are types 4.2 does not
\* have (only the 4.3 classes of entities.py refer to them)
TypeMap42(tag) ==
  CASE tag = "group" -> "Group"
    [] tag \in {"grouping", "publicStep", "dataCollection",
               "dataCollectionDatafile", "dataCollectionDataset",
               "dataCollectionParameter", "investigationInstrument"}
         -> "None"
    [] tag = "rule" -> "Rule"
    [] tag = "facility" -> "Facility"
    [] tag = "instrument" -> "Instrument"
    [] tag = "parameterType" -> "ParameterType"
    [] tag = "facilityCycle" -> "FacilityCycle"
    [] tag = "application" -> "Application"
    [] tag = "investigation" -> "Investigation"
    [] tag = "dataset" -> "Dataset"
    [] tag = "datafile" -> "Datafile"
    [] tag = "job" -> "Job"
    [] tag = "userGroup" -> "UserGroup"
    [] tag = "inputDatafile" -> "InputDatafile"
    [] tag = "outputDatafile" -> "OutputDatafile"
    [] tag = "inputDataset" -> "InputDataset"
    [] tag = "outputDataset" -> "OutputDataset"
    [] OTHER -> TypeMap(tag)

\* The schema variants and the class a type tag has in each
SchemaVariants == {"4.2", "4.3"}
ClassOf(tag, variant) ==
  IF variant = "4.2" THEN TypeMap42(tag) ELSE TypeMap(tag)

\* The entity (by BeanName) a to-one relation of a class points to, as the
\* ICAT schema declares it
RelTargetBean(cls, attr) ==
  CASE attr = "facility" -> "Facility"
    [] attr = "group" -> "Group"
    [] attr = "grouping" -> "Grouping"
    [] attr = "user" -> "User"
    [] attr = "instrument" -> "Instrument"
    [] attr = "facilityCycle" -> "FacilityCycle"
    [] attr = "investigation" -> "Investigation"
    [] attr = "study" -> "Study"
    [] attr = "sample" -> "Sample"
    [] attr = "dataset" -> "Dataset"
    [] attr \in {"datafile", "sourceDatafile", "destDatafile"} -> "Datafile"
    [] attr = "datafileFormat" -> "DatafileFormat"
    [] attr = "application" -> "Application"
    [] attr = "job" -> "Job"
    [] attr \in {"dataCollection", "inputDataCollection",
                 "outputDataCollection"} -> "DataCollection"
    [] attr = "type" /\ cls \in {"Investigation", "Investigation43"}
         -> "InvestigationType"
    [] attr = "type" /\ cls = "Sample" -> "SampleType"
    [] attr = "type" /\ cls \in {"Dataset", "Dataset43"} -> "DatasetType"
    [] attr = "type" -> "ParameterType"
    [] OTHER -> "None"

\* Position in entitytypes of the type of an entity (by BeanName), 0 when
\* entitytypes does not list it
BeanIndex(bean) ==
  LET at == {i \in 1..Len(entitytypes) :
               bean \in {BeanName(ClassOf(entitytypes[i], v)) :
                           v \in SchemaVariants} \ {"None"}}
  IN IF at = {} THEN 0 ELSE CHOOSE i \in at : TRUE
(***************************************************************************)
(* Python values.  A scalar is [k |-> its runtime type, v |-> its text];   *)
(* a related object is [k |-> "obj", v |-> its unique key, id |-> its id]. *)
(***************************************************************************)
None == [k |-> "NoneType", v |-> ""]

PyBool(s)  == [k |-> "bool", v |-> s]
PyInt(s)   == [k |-> "int", v |-> s]
PyLong(s)  == [k |-> "long", v |-> s]
PyFloat(s) == [k |-> "float", v |-> s]
PyStr(s)   == [k |-> "str", v |-> s]
PyUnicode(s) == [k |-> "unicode", v |-> s]
\* datetime.datetime with tzinfo None; v is isoformat()
PyDatetime(s) == [k |-> "datetime", v |-> s]
\* datetime.datetime whose tzinfo gives a utcoffset; v is isoformat()
PyDatetimeTz(s) == [k |-> "datetime_tz", v |-> s]
PyObj(key, id) == [k |-> "obj", v |-> key, id |-> id]

\* Texts that str() cannot encode (unicode text outside ASCII)
NonAsciiText == {"Stra?e"}
\* Integer texts outside the range of a Python 2 plain int
BigIntText == {"9223372036854775808"}

\* a == b for two Python scalars: int and long, and str and unicode,
\* compare by value
PyEq(a, b) ==
  \/ a.k = b.k /\ a.v = b.v
  \/ {a.k, b.k} = {"int", "long"} /\ a.v = b.v
  \/ {a.k, b.k} = {"str", "unicode"} /\ a.v = b.v

\* Outcome of a call: a returned value or a raised exception
Return(x) == [ok |-> TRUE, val |-> x, err |-> ""]
Raise(e)  == [ok |-> FALSE, val |-> <<>>, err |-> e]

\* An argument that is no entity object (it has no InstAttr)
NoneObj == [cls |-> "NoneType", key |-> "", sk |-> 0, attrs |-> <<>>,
            rels |-> <<>>, mrels |-> <<>>, extra |-> {}]

\* Entity.getUniqueKey(autoget=False, keyindex=keyindex) of a related object:
\* the key cached in keyindex under the object's id, else the key computed
\* from the object; an object without a computable key has v = "".
\* What the call stores in keyindex is KeyCached below.
CanUniqueKey(o, keyindex) == o.id \in DOMAIN keyindex \/ o.v # ""
getUniqueKey(o, keyindex) ==
  IF o.id \in DOMAIN keyindex THEN keyindex[o.id] ELSE o.v

\* Entity.__sortkey__: the natural sort key of an entity, a tuple of its own
\* attributes.  sk is the rank of that tuple among the tuples of the
\* entities of a collection: two entities whose tuples are equal have the
\* same sk, whatever their other attributes are
sortkey(o) == o.sk

\* sorted(seq, key=Entity.__sortkey__): stable, ascending
RECURSIVE InsertSorted(_, _)
InsertSorted(s, o) ==
  IF s = <<>> THEN <<o>>
  ELSE IF sortkey(s[Len(s)]) <= sortkey(o) THEN Append(s, o)
  ELSE Append(InsertSorted(SubSeq(s, 1, Len(s) - 1), o), s[Len(s)])

RECURSIVE sorted(_)
sorted(s) ==
  IF s = <<>> THEN <<>>
  ELSE InsertSorted(sorted(SubSeq(s, 1, Len(s) - 1)), s[Len(s)])

(***************************************************************************)
(* entity2dict                                                             *)
(***************************************************************************)
\* The value stored for a plain attribute that is not None
\* (the isinstance chain of entity2dict)
ScalarToRecord(v) ==
  CASE v.k = "bool" -> v
    [] v.k \in {"long", "int"} ->
         IF v.v \in BigIntText THEN PyLong(v.v) ELSE PyInt(v.v)
    [] v.k = "datetime_tz" -> PyStr(v.v)
    [] v.k = "datetime" -> PyStr(v.v \o "Z")
    [] v.k = "unicode" /\ v.v \in NonAsciiText -> v
    [] OTHER -> PyStr(v.v)

\* No attribute is skipped: neither id nor an attribute that is None
AttrFieldsNoSkip(obj) == InstAttr(obj.cls)
\* Fields of obj that get an entry in the dict
AttrFields(obj) ==
  {a \in InstAttr(obj.cls) \ {"id"} : obj.attrs[a] # None}
\* No to-one relation gets a field
RelFieldsNone(obj) == {}
RelFields(obj) == {r \in InstRel(obj.cls) : obj.rels[r] # None}
MRelFields(obj) == {m \in InstMRel(obj.cls) : Len(obj.mrels[m]) > 0}

RECURSIVE entity2dict(_, _)
entity2dict(obj, keyindex) ==
  IF obj.cls = "NoneType" THEN Raise("AttributeError")
  ELSE IF \E r \in RelFields(obj) : ~CanUniqueKey(obj.rels[r], keyindex)
  THEN Raise("getUniqueKey failed")
  ELSE
    LET sub == [m \in MRelFields(obj) |->
                  [i \in 1..Len(obj.mrels[m]) |->
                     entity2dict(sorted(obj.mrels[m])[i], keyindex)]]
    IN IF \E m \in MRelFields(obj) : \E i \in 1..Len(sub[m]) : ~sub[m][i].ok
       THEN LET m == CHOOSE m \in MRelFields(obj) :
                       \E i \in 1..Len(sub[m]) : ~sub[m][i].ok
                i == CHOOSE i \in 1..Len(sub[m]) : ~sub[m][i].ok
            IN sub[m][i]
       ELSE Return(
         [f \in AttrFields(obj) \cup RelFields(obj) \cup MRelFields(obj) |->
            IF f \in MRelFields(obj)
            THEN [i \in 1..Len(sub[f]) |-> sub[f][i].val]
            ELSE IF f \in RelFields(obj)
            THEN PyStr(getUniqueKey(obj.rels[f], keyindex))
            ELSE ScalarToRecord(obj.attrs[f])])

\* What Entity.getUniqueKey(autoget=False, keyindex=keyindex) stores in
\* keyindex: the key it has computed, under the id of the object.  A key
\* found in keyindex and a key that cannot be computed store nothing.
KeyCached(o, keyindex) ==
  IF o.id \notin DOMAIN keyindex /\ o.v # "" THEN {<<o.id, o.v>>} ELSE {}

\* keyindex with the entries S, pairs of id and key, stored
StoreKeys(keyindex, S) ==
  [i \in DOMAIN keyindex \cup {p[1] : p \in S} |->
     IF i \in DOMAIN keyindex THEN keyindex[i]
     ELSE (CHOOSE p \in S : p[1] = i)[2]]

\* The entries the getUniqueKey calls of entity2dict(obj, keyindex) store
\* for the to-one relation targets of obj itself
OwnKeys(obj, keyindex) ==
  UNION {KeyCached(obj.rels[r], keyindex) : r \in RelFields(obj)}

\* and for those of obj and of the children the nested calls encode
RECURSIVE AllKeys(_, _)
AllKeys(obj, keyindex) ==
  OwnKeys(obj, keyindex)
  \cup UNION {UNION {AllKeys(obj.mrels[m][i], keyindex) :
                      i \in 1..Len(obj.mrels[m])} : m \in MRelFields(obj)}

\* The keyindex replaced by a dict of the keys this call has computed: the
\* entries it had are dropped
KeyindexAfterDropping(obj, keyindex) ==
  IF obj.cls = "NoneType" THEN {keyindex}
  ELSE {StoreKeys([i \in {} |-> ""], AllKeys(obj, keyindex))}
\* The contents the dict keyindex may have when entity2dict(obj, keyindex)
\* has ended.  A call that returns has made every getUniqueKey call; a call
\* that raises in the loop over InstRel has made those of the relations
\* iterated before, in the order of the frozenset; a call that raises in a
\* nested call has made those of obj itself and some of the nested ones.
KeyindexAfter(obj, keyindex) ==
  IF obj.cls = "NoneType" THEN {keyindex}
  ELSE IF \E r \in RelFields(obj) : ~CanUniqueKey(obj.rels[r], keyindex)
  THEN {StoreKeys(keyindex, S) : S \in SUBSET OwnKeys(obj, keyindex)}
  ELSE IF ~entity2dict(obj, keyindex).ok
  THEN {StoreKeys(keyindex, OwnKeys(obj, keyindex) \cup S) :
          S \in SUBSET AllKeys(obj, keyindex)}
  ELSE {StoreKeys(keyindex, AllKeys(obj, keyindex))}

\* The entity when entity2dict(obj, keyindex) has ended.  The function reads
\* the attributes and relations with getattr() and assigns to none of them;
\* sorted() builds a new list and leaves the collection in its order;
\* getUniqueKey(autoget=False) does not fetch the related object.
EntityAfter(obj) == obj

\* The type tags of the schema: those of entitytypes and those of the
\* entities that only occur as children
TypeTags ==
  {entitytypes[i] : i \in 1..Len(entitytypes)}
  \cup {"group", "datasetParameter", "datafileParameter", "sampleParameter",
        "investigationParameter", "dataCollectionParameter",
        "dataCollectionDatafile", "dataCollectionDataset", "userGroup",
        "instrumentScientist", "investigationInstrument",
        "investigationUser", "keyword", "publication", "shift",
        "studyInvestigation", "permissibleStringValue", "inputDatafile",
        "outputDatafile", "inputDataset", "outputDataset",
        "log", "notificationRequest"}

\* The entity classes of a schema variant
Classes(variant) == {ClassOf(t, variant) : t \in TypeTags} \ {"None"}

\* The class an entity (by BeanName) has in a schema variant
ClassOfBean(bean, variant) ==
  IF \E c \in Classes(variant) : BeanName(c) = bean
  THEN CHOOSE c \in Classes(variant) : BeanName(c) = bean
  ELSE "None"

\* The recursion follows the to-one relations as well as the to-many ones
ChildClassesWithTargets(cls, variant) ==
  ({ClassOf(MRelType(cls, m), variant) : m \in InstMRel(cls)}
   \cup {ClassOfBean(RelTargetBean(cls, r), variant) : r \in InstRel(cls)})
  \ {"None"}

\* The classes of the objects entity2dict calls itself on for an object of
\* class cls: those of the children of its to-many relations
ChildClasses(cls, variant) ==
  {ClassOf(MRelType(cls, m), variant) : m \in InstMRel(cls)} \ {"None"}

\* The classes entity2dict can reach from the classes S by nested calls
RECURSIVE NestedClasses(_, _)
NestedClasses(S, variant) ==
  LET T == S \cup UNION {ChildClasses(c, variant) : c \in S}
  IN IF T = S THEN S ELSE NestedClasses(T, variant)
(***************************************************************************)
(* dict2entity                                                             *)
(***************************************************************************)
\* Keys of the objects the ICAT server already holds (found by a search)
RemoteKeys == {"Facility_name-ESS"}
RemoteObj(key) == PyObj(key, 900)

\* client.searchUniqueKey(key, objindex): the object registered in objindex
\* under the key, else the object a search at the server finds; an error
\* when there is neither
CanSearchUniqueKey(key, idx) ==
  key.v \in DOMAIN idx \/ key.v \in RemoteKeys
searchUniqueKey(key, idx) ==
  IF key.v \in DOMAIN idx THEN idx[key.v] ELSE RemoteObj(key.v)

\* client.new(objtype): a new entity object of the class of the type tag,
\* every attribute and relation unset
NewEntity(objtype) ==
  [cls |-> TypeMap(objtype), key |-> "", sk |-> 0,
   attrs |-> [a \in InstAttr(TypeMap(objtype)) |-> None],
   rels |-> [r \in InstRel(TypeMap(objtype)) |-> None],
   mrels |-> [m \in InstMRel(TypeMap(objtype)) |-> <<>>],
   extra |-> {}]

\* The branch of the if/elif chain of dict2entity a field of d takes
AttrKeys(d, cls) == {a \in DOMAIN d : a \in InstAttr(cls)}
RelKeys(d, cls) == {a \in DOMAIN d : a \notin InstAttr(cls) /\ a \in InstRel(cls)}
MRelKeys(d, cls) ==
  {a \in DOMAIN d : a \notin InstAttr(cls) /\ a \notin InstRel(cls)
                    /\ a \in InstMRel(cls)}
\* No field is taken for invalid: the else branch never raises
InvalidKeysNone(d, cls) == {}

InvalidKeys(d, cls) ==
  {a \in DOMAIN d : a \notin InstAttr(cls) /\ a \notin InstRel(cls)
                    /\ a \notin InstMRel(cls)}

\* dict2entity that puts each decoded child in front of the collection
\* (insert(0, robj)) instead of appending it
RECURSIVE dict2entityReversed(_, _, _)
dict2entityReversed(d, objtype, idx) ==
  LET cls == TypeMap(objtype)
      sub(m, i) == dict2entityReversed(d[m][i], MRelType(cls, m), idx)
      failing(m) == {i \in 1..Len(d[m]) : \E r \in sub(m, i) : ~r.ok}
      first(m) == CHOOSE i \in failing(m) : \A j \in failing(m) : i <= j
      child(m, i) == (CHOOSE r \in sub(m, i) : TRUE).val
      raised(a) ==
        IF a \in InvalidKeys(d, cls)
        THEN {Raise("ValueError: invalid attribute")}
        ELSE IF a \in RelKeys(d, cls) /\ ~CanSearchUniqueKey(d[a], idx)
        THEN {Raise("SearchResultError")}
        ELSE IF a \in MRelKeys(d, cls) /\ failing(a) # {}
        THEN sub(a, first(a))
        ELSE {}
      errors == UNION {raised(a) : a \in DOMAIN d}
  IN IF errors # {} THEN errors
     ELSE {Return(
       [NewEntity(objtype) EXCEPT
          !.attrs = [a \in InstAttr(cls) |->
                       IF a \in DOMAIN d THEN d[a] ELSE None],
          !.rels = [r \in InstRel(cls) |->
                      IF r \in RelKeys(d, cls)
                      THEN searchUniqueKey(d[r], idx) ELSE None],
          !.mrels = [m \in InstMRel(cls) |->
                       IF m \in MRelKeys(d, cls)
                       THEN [i \in 1..Len(d[m]) |-> child(m, Len(d[m]) + 1 - i)]
                       ELSE <<>>]])}

\* dict2entity(client, insttypemap, d, objtype, objindex): the set of the
\* outcomes the call can have.  The fields of d are visited in the dict's
\* iteration order, which is any order; the call raises at the first field
\* that fails, so when several fields fail each of their exceptions is a
\* possible outcome.  A field fails when it is not declared (ValueError),
\* when it is a to-one relation whose key searchUniqueKey() cannot find, or
\* when it is a to-many relation with a child record whose decoding fails:
\* the children are decoded in list order, so it is the first such child
\* that raises.  When no field fails the one outcome is the entity.
RECURSIVE dict2entity(_, _, _)
dict2entity(d, objtype, idx) ==
  LET cls == TypeMap(objtype)
      sub(m, i) == dict2entity(d[m][i], MRelType(cls, m), idx)
      failing(m) == {i \in 1..Len(d[m]) : \E r \in sub(m, i) : ~r.ok}
      first(m) == CHOOSE i \in failing(m) : \A j \in failing(m) : i <= j
      child(m, i) == (CHOOSE r \in sub(m, i) : TRUE).val
      raised(a) ==
        IF a \in InvalidKeys(d, cls)
        THEN {Raise("ValueError: invalid attribute")}
        ELSE IF a \in RelKeys(d, cls) /\ ~CanSearchUniqueKey(d[a], idx)
        THEN {Raise("SearchResultError")}
        ELSE IF a \in MRelKeys(d, cls) /\ failing(a) # {}
        THEN sub(a, first(a))
        ELSE {}
      errors == UNION {raised(a) : a \in DOMAIN d}
  IN IF errors # {} THEN errors
     ELSE {Return(
       [NewEntity(objtype) EXCEPT
          !.attrs = [a \in InstAttr(cls) |->
                       IF a \in DOMAIN d THEN d[a] ELSE None],
          !.rels = [r \in InstRel(cls) |->
                      IF r \in RelKeys(d, cls)
                      THEN searchUniqueKey(d[r], idx) ELSE None],
          !.mrels = [m \in InstMRel(cls) |->
                       IF m \in MRelKeys(d, cls)
                       THEN [i \in 1..Len(d[m]) |-> child(m, i)]
                       ELSE <<>>]])}

(***************************************************************************)
(* Entities and calls the writer is driven with.                           *)
(***************************************************************************)
\* An entity object of class cls: A, R, M give the attributes, to-one and
\* to-many relations that are set, X the undeclared fields it exposes
MkEntity(cls, key, sk, A, R, M, X) ==
  [cls |-> cls, key |-> key, sk |-> sk,
   attrs |-> [a \in InstAttr(cls) |-> IF a \in DOMAIN A THEN A[a] ELSE None],
   rels |-> [r \in InstRel(cls) |-> IF r \in DOMAIN R THEN R[r] ELSE None],
   mrels |-> [m \in InstMRel(cls) |-> IF m \in DOMAIN M THEN M[m] ELSE <<>>],
   extra |-> X]

EmptyDict == [x \in {} |-> None]

UserA == MkEntity("User", "User_name-jdoe", 1,
                  [id |-> PyLong("1"), name |-> PyStr("jdoe")],
                  EmptyDict, EmptyDict, {})
UserB == MkEntity("User", "User_name-jdoe", 1,
                  [id |-> PyLong("1"), name |-> PyStr("jdoe"),
                   fullName |-> PyStr("John Doe")],
                  EmptyDict, EmptyDict, {})
DatasetA == MkEntity("Dataset43", "Dataset_name-e208945", 1,
                     [id |-> PyLong("7"), name |-> PyStr("e208945"),
                      complete |-> PyBool("False")],
                     [type |-> PyObj("DatasetType_name-raw", 3)],
                     EmptyDict, {})

\* keyindex handed to add(): object id -> unique key
WriterKeyindex == [i \in {3} |-> "DatasetType_name-raw"]

\* The add() calls tried: (tag, key, obj)
AddCalls ==
  { <<"user", "k1", UserA>>, <<"user", "k1", UserB>>,
    <<"dataset", "k1", DatasetA>>, <<"dataset", "k2", NoneObj>>,
    <<"bogus", "k1", UserA>> }

(***************************************************************************)
(* YAMLDumpFileWriter                                                      *)
(***************************************************************************)
Header == [kind |-> "head", doc |-> EmptyDict]
Document(chunk) == [kind |-> "doc", doc |-> chunk]

\* d[k] = v on a Python dict
DictSet(d, k, v) == [x \in DOMAIN d \cup {k} |-> IF x = k THEN v ELSE d[x]]

\* Number of records staged in a chunk
Staged(chunk) ==
  UNION { {<<t, k>> : k \in DOMAIN chunk[t]} : t \in DOMAIN chunk }

Called(name) == wop' = <<wop[2], name>>

\* head(service, apiversion): write the header to the output
head ==
  /\ Len(out) < MaxOut
  /\ out' = Append(out, Header)
  /\ wres' = "ok"
  /\ Called("head")
  /\ UNCHANGED data
  /\ UNCHANGED <<rvars, cvars, hvars>>

\* FlushChunk without the test of self.data: the chunk is dumped even when
\* it is empty
FlushChunkAlways ==
  /\ Len(out) < MaxOut
  /\ out' = Append(out, Document(data))
  /\ data' = EmptyDict

\* The body of startdata(): dump the chunk when self.data is true (a dict
\* with at least one tag), then self.data = {}
FlushChunk ==
  /\ data # EmptyDict => Len(out) < MaxOut
  /\ out' = IF data # EmptyDict THEN Append(out, Document(data)) ELSE out
  /\ data' = EmptyDict

startdata ==
  /\ FlushChunk
  /\ wres' = "ok"
  /\ Called("startdata")
  /\ UNCHANGED <<rvars, cvars, hvars>>

\* add() without the test of the tag against entitytypes
addUnchecked(tag, key, obj, keyindex) ==
  /\ Called("add")
  /\ UNCHANGED out
  /\ UNCHANGED <<rvars, cvars, hvars>>
  /\ LET withtag == IF tag \in DOMAIN data THEN data
                    ELSE DictSet(data, tag, EmptyDict)
         rec == entity2dict(obj, keyindex)
     IN IF rec.ok
        THEN /\ data' = DictSet(withtag, tag,
                                DictSet(withtag[tag], key, rec.val))
             /\ wres' = "ok"
        ELSE /\ data' = withtag
             /\ wres' = rec.err

\* add() that keeps the record already staged under the tag and key
addKeepingFirst(tag, key, obj, keyindex) ==
  /\ Called("add")
  /\ UNCHANGED out
  /\ UNCHANGED <<rvars, cvars, hvars>>
  /\ IF ~IsEntityType(tag)
     THEN wres' = "ValueError: Unknown entity type" /\ UNCHANGED data
     ELSE LET withtag == IF tag \in DOMAIN data THEN data
                         ELSE DictSet(data, tag, EmptyDict)
              rec == entity2dict(obj, keyindex)
          IN IF rec.ok
             THEN /\ data' = IF key \in DOMAIN withtag[tag] THEN withtag
                             ELSE DictSet(withtag, tag,
                                          DictSet(withtag[tag], key, rec.val))
                  /\ wres' = "ok"
             ELSE /\ data' = withtag
                  /\ wres' = rec.err
\* add(tag, key, obj, keyindex)
add(tag, key, obj, keyindex) ==
  /\ Called("add")
  /\ UNCHANGED out
  /\ UNCHANGED <<rvars, cvars, hvars>>
  /\ IF ~IsEntityType(tag)
     THEN wres' = "ValueError: Unknown entity type" /\ UNCHANGED data
     ELSE LET withtag == IF tag \in DOMAIN data THEN data
                         ELSE DictSet(data, tag, EmptyDict)
              rec == entity2dict(obj, keyindex)
          IN IF rec.ok
             THEN /\ data' = DictSet(withtag, tag,
                                     DictSet(withtag[tag], key, rec.val))
                  /\ wres' = "ok"
             ELSE /\ data' = withtag
                  /\ wres' = rec.err

\* finalize(): self.startdata()
finalize ==
  /\ FlushChunk
  /\ wres' = "ok"
  /\ Called("finalize")
  /\ UNCHANGED <<rvars, cvars, hvars>>

WriterInit ==
  /\ data = EmptyDict
  /\ out = <<>>
  /\ wres = "ok"
  /\ wop = <<"init", "init">>

\* The caller's add() call, with one of the inputs tried
Add == \E c \in AddCalls : add(c[1], c[2], c[3], WriterKeyindex)

(***************************************************************************)
(* Inputs the encoder and the decoder are applied to.                      *)
(***************************************************************************)
DatasetTypeRaw == PyObj("DatasetType_name-raw", 3)
\* A related object no unique key can be computed for
Unkeyed == PyObj("", 4)
ParameterTemp == PyObj("ParameterType_name-temperature", 5)

ParameterA == MkEntity("DatasetParameter", "", 2,
                       [numericValue |-> PyFloat("1.5")],
                       [type |-> ParameterTemp], EmptyDict, {})
ParameterB == MkEntity("DatasetParameter", "", 1,
                       [stringValue |-> PyStr("cold")],
                       [type |-> ParameterTemp], EmptyDict, {})
\* A parameter whose sort key equals that of ParameterB: the two differ in
\* an attribute that is no part of the sort key
ParameterTie == MkEntity("DatasetParameter", "", 1,
                         [stringValue |-> PyStr("hot")],
                         [type |-> ParameterTemp], EmptyDict, {})
\* A parameter whose to-one relation dataset points back to the dataset that
\* holds it in its parameters (a cycle child -> parent -> child)
ParameterBack == MkEntity("DatasetParameter", "", 3,
                          [stringValue |-> PyStr("warm")],
                          [type |-> ParameterTemp,
                           dataset |-> PyObj("Dataset_name-e208945", 7)],
                          EmptyDict, {})

CodecDatasets ==
  { MkEntity("Dataset43", "Dataset_name-e208945", 1,
             [id |-> PyLong("7"), name |-> n, complete |-> c, startDate |-> t],
             [type |-> r], [parameters |-> ps], x) :
      n \in {PyStr("e208945"), PyUnicode("Stra?e")},
      c \in {None, PyBool("True")},
      t \in {None, PyDatetime("2014-01-01T00:00:00"),
             PyDatetimeTz("2014-01-01T01:00:00+01:00")},
      r \in {None, DatasetTypeRaw, Unkeyed},
      ps \in {<<>>, <<ParameterB>>, <<ParameterA, ParameterB>>,
              <<ParameterB, ParameterTie>>, <<ParameterBack>>},
      x \in {{}, {"bogus"}} }

CodecDatafiles ==
  { MkEntity("Datafile43", "Datafile_name-f.dat", 1,
             [name |-> PyStr("f.dat"), fileSize |-> z],
             EmptyDict, EmptyDict, {}) :
      z \in {PyInt("42"), PyLong("42"), PyLong("9223372036854775808")} }

\* (type tag, entity) pairs given to entity2dict
CodecEntities ==
  {<<"dataset", e>> : e \in CodecDatasets}
  \cup {<<"datafile", e>> : e \in CodecDatafiles}

\* keyindex values given to entity2dict
CodecKeyindexes == {EmptyDict, WriterKeyindex}

\* objindex that maps every key to the object the key is the key of
ConsistentIndex ==
  [k \in {DatasetTypeRaw.v, ParameterTemp.v} |->
     IF k = DatasetTypeRaw.v THEN DatasetTypeRaw ELSE ParameterTemp]
\* objindex values given to dict2entity
CodecIndexes ==
  {EmptyDict, ConsistentIndex,
   [k \in {DatasetTypeRaw.v, ParameterTemp.v} |-> ParameterTemp]}

\* Records given to dict2entity as type "datafile"
CodecRecords ==
  { [f \in A \cup R \cup M \cup B |->
       IF f = "name" THEN PyStr("f.dat")
       ELSE IF f = "fileSize" THEN PyInt("42")
       ELSE IF f = "datafileFormat" THEN PyStr("DatafileFormat_name-NeXus")
       ELSE IF f = "parameters" THEN ch
       ELSE PyInt("1")] :
      A \in {{"name"}, {"name", "fileSize"}},
      R \in {{}, {"datafileFormat"}},
      M \in {{}, {"parameters"}},
      B \in {{}, {"bogus"}},
      ch \in { <<[stringValue |-> PyStr("cold")]>>,
               <<[stringValue |-> PyStr("cold")],
                 [stringValue |-> PyStr("hot"), bogus |-> PyInt("1")]>> } }

RecordIndexes ==
  {EmptyDict,
   [k \in {"DatafileFormat_name-NeXus"} |-> PyObj("DatafileFormat_name-NeXus", 6)]}

(***************************************************************************)
(* The encoder and the decoder applied to one input.                       *)
(***************************************************************************)
CodecInit ==
  /\ cenc = Raise("") /\ cdec = Raise("")
  /\ \/ /\ cpc = "obj"
        /\ \E p \in CodecEntities : ctype = p[1] /\ cobj = p[2]
        /\ ckeyindex \in CodecKeyindexes
        /\ ckeyafter = ckeyindex
        /\ cidx \in CodecIndexes
        /\ crec = EmptyDict
     \/ /\ cpc = "rec"
        /\ cobj = NoneObj /\ ckeyindex = EmptyDict /\ ckeyafter = EmptyDict
        /\ ctype = "datafile"
        /\ crec \in CodecRecords
        /\ cidx \in RecordIndexes

\* cenc = entity2dict(cobj, keyindex), keyindex a dict with the content
\* ckeyindex
Encode ==
  /\ cpc = "obj"
  /\ cenc' = entity2dict(cobj, ckeyindex)
  /\ cobj' = EntityAfter(cobj)
  /\ ckeyafter' \in KeyindexAfter(cobj, ckeyindex)
  /\ cpc' = "encoded"
  /\ UNCHANGED <<crec, ctype, ckeyindex, cidx, cdec>>
  /\ UNCHANGED <<wvars, rvars, hvars>>

\* add(ctype, cobj.key, cobj, keyindex) of a writer that has staged nothing,
\* keyindex a dict with the content ckeyindex
AddEntity ==
  /\ cpc = "obj"
  /\ Called("add")
  /\ IF ~IsEntityType(ctype)
     THEN /\ wres' = "ValueError: Unknown entity type"
          /\ UNCHANGED <<data, cobj, ckeyafter>>
     ELSE LET withtag == IF ctype \in DOMAIN data THEN data
                         ELSE DictSet(data, ctype, EmptyDict)
              rec == entity2dict(cobj, ckeyindex)
          IN /\ IF rec.ok
                THEN /\ data' = DictSet(withtag, ctype,
                                        DictSet(withtag[ctype], cobj.key,
                                                rec.val))
                     /\ wres' = "ok"
                ELSE /\ data' = withtag
                     /\ wres' = rec.err
             /\ cobj' = EntityAfter(cobj)
             /\ ckeyafter' \in KeyindexAfter(cobj, ckeyindex)
  /\ cpc' = "added"
  /\ UNCHANGED <<crec, ctype, ckeyindex, cidx, cenc, cdec>>
  /\ UNCHANGED out
  /\ UNCHANGED <<rvars, hvars>>

\* cdec = dict2entity(client, insttypemap, cenc, ctype, cidx)
DecodeEncoded ==
  /\ cpc = "encoded"
  /\ cenc.ok
  /\ crec' = cenc.val
  /\ cdec' \in dict2entity(cenc.val, ctype, cidx)
  /\ cpc' = "roundtrip"
  /\ UNCHANGED <<cobj, ctype, ckeyindex, ckeyafter, cidx, cenc>>
  /\ UNCHANGED <<wvars, rvars, hvars>>

\* cdec = dict2entity(client, insttypemap, crec, ctype, cidx)
DecodeRecord ==
  /\ cpc = "rec"
  /\ cdec' \in dict2entity(crec, ctype, cidx)
  /\ cpc' = "decoded"
  /\ UNCHANGED <<cobj, crec, ctype, ckeyindex, ckeyafter, cidx, cenc>>
  /\ UNCHANGED <<wvars, rvars, hvars>>

(***************************************************************************)
(* Chunks the reader is given.                                             *)
(***************************************************************************)
RecUser(n) == [name |-> PyStr(n)]
RecFacility == [name |-> PyStr("HZB")]
RecParameterType(fk) ==
  [name |-> PyStr("temperature"), units |-> PyStr("K"),
   valueType |-> PyStr("NUMERIC"), facility |-> PyStr(fk)]
RecStudy(uk) == [name |-> PyStr("s"), user |-> PyStr(uk)]

\* Two users, a facility and a parameter type of that facility
ChunkBase ==
  [t \in {"parameterType", "facility", "user"} |->
     IF t = "user" THEN [k \in {"u1", "u2"} |-> RecUser(k)]
     ELSE IF t = "facility" THEN [k \in {"f1"} |-> RecFacility]
     ELSE [k \in {"pt1"} |-> RecParameterType("f1")]]
\* A study of a user of an earlier chunk
ChunkStudy == [t \in {"study"} |-> [k \in {"s1"} |-> RecStudy("u1")]]
\* A facility and a parameter type whose record has an invalid attribute
ChunkInvalid ==
  [t \in {"parameterType", "facility"} |->
     IF t = "facility" THEN [k \in {"f2"} |-> RecFacility]
     ELSE [k \in {"pt2"} |->
             DictSet(RecParameterType("f2"), "bogus", PyInt("1"))]]
\* A user, a facility and a record under a tag that is not in entitytypes
ChunkUnknownTag ==
  [t \in {"facility", "bogus", "user"} |->
     IF t = "facility" THEN [k \in {"f3"} |-> RecFacility]
     ELSE IF t = "user" THEN [k \in {"u3"} |-> RecUser("u3")]
     ELSE [k \in {"x1"} |-> RecUser("x1")]]
\* A parameter type of a facility that only the server holds
ChunkRemote ==
  [t \in {"parameterType"} |->
     [k \in {"pt3"} |-> RecParameterType("Facility_name-ESS")]]

\* A group and a rule for the group
ChunkRule ==
  [t \in {"grouping", "rule"} |->
     IF t = "grouping" THEN [k \in {"g1"} |-> [name |-> PyStr("admins")]]
     ELSE [k \in {"r1"} |->
             [what |-> PyStr("Facility"), crudFlags |-> PyStr("R"),
              grouping |-> PyStr("g1")]]]

Chunks ==
  {ChunkBase, ChunkStudy, ChunkInvalid, ChunkUnknownTag, ChunkRemote,
   ChunkRule}

\* The streams read: up to MaxChunks chunks
Streams == UNION { [1..n -> Chunks] : n \in 1..MaxChunks }

(***************************************************************************)
(* YAMLDumpFileReader.getobjs and the restore loop that pulls it:          *)
(*     for data in reader.getdata():                                       *)
(*         for key, obj in reader.getobjs(data, objindex):                 *)
(*             obj.create(); objindex[key] = obj                           *)
(***************************************************************************)
\* Positions after ti in entitytypes whose name has records in the chunk
NamesAfter(chunk, ti) ==
  {i \in (ti + 1)..Len(entitytypes) :
     /\ entitytypes[i] \in DOMAIN chunk
     /\ DOMAIN chunk[entitytypes[i]] # {}}

\* The names of the chunk visited from the end of entitytypes backwards
NextNameReversed(chunk, ti) ==
  LET before == {i \in 1..Len(entitytypes) :
                   /\ ti = 0 \/ i < ti
                   /\ entitytypes[i] \in DOMAIN chunk
                   /\ DOMAIN chunk[entitytypes[i]] # {}}
  IN IF before = {} THEN 0
     ELSE CHOOSE i \in before : \A j \in before : j <= i

\* for name in entitytypes: if name in data: the position of the next name
\* after position ti that yields a record, 0 when there is none
NextName(chunk, ti) ==
  IF NamesAfter(chunk, ti) = {} THEN 0
  ELSE CHOOSE i \in NamesAfter(chunk, ti) :
         \A j \in NamesAfter(chunk, ti) : i <= j

\* The generator runs although the entity it yielded is not handled yet
CallerPullsAhead == TRUE

\* The generator is suspended at its yield until the for loop asks for the
\* next item, which it does after the loop body handled the last one
CallerPulls == yq = <<>>

\* Keys the to-one fields of a record and of its nested child records name
RECURSIVE RefKeys(_, _)
RefKeys(d, objtype) ==
  LET cls == TypeMap(objtype)
  IN {d[r].v : r \in RelKeys(d, cls)}
     \cup UNION { UNION { RefKeys(d[m][i], MRelType(cls, m)) :
                            i \in 1..Len(d[m]) } : m \in MRelKeys(d, cls) }

\* getdata(): the for loop takes the next chunk and calls getobjs on it,
\* which creates the generator and runs none of its code
getdata ==
  /\ rres = "ok"
  /\ ~gen.live
  /\ yq = <<>>
  /\ ci < Len(stream)
  /\ ci' = ci + 1
  /\ gen' = [ti |-> 0, todo |-> {}, live |-> TRUE]
  /\ UNCHANGED <<stream, yq, objindex, created, rres, trace>>
  /\ UNCHANGED <<wvars, cvars, hvars>>

\* getobjs that creates the entity it decoded and registers it in objindex
\* under its key before it yields it
getobjsCreating ==
  /\ rres = "ok"
  /\ gen.live
  /\ CallerPulls
  /\ LET chunk == stream[ci]
         ni == IF gen.todo # {} THEN gen.ti ELSE NextName(chunk, gen.ti)
     IN IF ni = 0
        THEN /\ gen' = [gen EXCEPT !.live = FALSE]
             /\ UNCHANGED <<yq, rres, trace, objindex, created>>
        ELSE \E key \in (IF gen.todo # {} THEN gen.todo
                         ELSE DOMAIN chunk[entitytypes[ni]]) :
             \E res \in dict2entity(chunk[entitytypes[ni]][key],
                                    entitytypes[ni], objindex) :
               LET name == entitytypes[ni]
                   d == chunk[name][key]
                   rest == (IF gen.todo # {} THEN gen.todo
                            ELSE DOMAIN chunk[name]) \ {key}
               IN /\ trace' = Append(trace,
                       [chunk |-> ci, tag |-> name, key |-> key,
                        ok |-> res.ok,
                        unresolved |-> RefKeys(d, name) \ DOMAIN objindex,
                        pending |-> Len(yq),
                        last |-> rest = {} /\ NextName(chunk, ni) = 0])
                  /\ IF res.ok
                     THEN /\ yq' = Append(yq, [key |-> key, tag |-> name,
                                               obj |-> res.val])
                          /\ gen' = [ti |-> ni, todo |-> rest, live |-> TRUE]
                          /\ created' = Append(created,
                               [chunk |-> ci, tag |-> name, key |-> key])
                          /\ objindex' = DictSet(objindex, key,
                                                 PyObj(key, Len(created) + 1))
                          /\ UNCHANGED rres
                     ELSE /\ rres' = res.err
                          /\ gen' = [ti |-> ni, todo |-> rest, live |-> FALSE]
                          /\ UNCHANGED <<yq, objindex, created>>
  /\ UNCHANGED <<stream, ci>>
  /\ UNCHANGED <<wvars, cvars, hvars>>

\* getobjs(data, objindex) resumed by next(): it runs to its next yield, to
\* the exception dict2entity raises, or to its end.  iteritems() gives the
\* keys of data[name] in the dict's order, which is any order.
getobjs ==
  /\ rres = "ok"
  /\ gen.live
  /\ CallerPulls
  /\ LET chunk == stream[ci]
         ni == IF gen.todo # {} THEN gen.ti ELSE NextName(chunk, gen.ti)
     IN IF ni = 0
        THEN /\ gen' = [gen EXCEPT !.live = FALSE]
             /\ UNCHANGED <<yq, rres, trace>>
        ELSE \E key \in (IF gen.todo # {} THEN gen.todo
                         ELSE DOMAIN chunk[entitytypes[ni]]) :
             \E res \in dict2entity(chunk[entitytypes[ni]][key],
                                    entitytypes[ni], objindex) :
               LET name == entitytypes[ni]
                   d == chunk[name][key]
                   rest == (IF gen.todo # {} THEN gen.todo
                            ELSE DOMAIN chunk[name]) \ {key}
               IN /\ trace' = Append(trace,
                       [chunk |-> ci, tag |-> name, key |-> key,
                        ok |-> res.ok,
                        unresolved |-> RefKeys(d, name) \ DOMAIN objindex,
                        pending |-> Len(yq),
                        last |-> rest = {} /\ NextName(chunk, ni) = 0])
                  /\ IF res.ok
                     THEN /\ yq' = Append(yq, [key |-> key, tag |-> name,
                                               obj |-> res.val])
                          /\ gen' = [ti |-> ni, todo |-> rest, live |-> TRUE]
                          /\ UNCHANGED rres
                     ELSE /\ rres' = res.err
                          /\ gen' = [ti |-> ni, todo |-> rest, live |-> FALSE]
                          /\ UNCHANGED yq
  /\ UNCHANGED <<stream, ci, objindex, created>>
  /\ UNCHANGED <<wvars, cvars, hvars>>

\* The body of the restore loop: create the entity that was yielded and
\* register it in the key index under its key
restore ==
  /\ rres = "ok"
  /\ yq # <<>>
  /\ created' = Append(created, [chunk |-> ci, tag |-> Head(yq).tag,
                                 key |-> Head(yq).key])
  /\ objindex' = DictSet(objindex, Head(yq).key,
                         PyObj(Head(yq).key, Len(created) + 1))
  /\ yq' = Tail(yq)
  /\ UNCHANGED <<stream, ci, gen, rres, trace>>
  /\ UNCHANGED <<wvars, cvars, hvars>>

ReaderInit ==
  /\ stream \in Streams
  /\ ci = 0
  /\ gen = [ti |-> 0, todo |-> {}, live |-> FALSE]
  /\ yq = <<>>
  /\ objindex = EmptyDict
  /\ created = <<>>
  /\ rres = "ok"
  /\ trace = <<>>

(***************************************************************************)
(* chunkedhttp.py: the urllib2 handler and the HTTP connection.            *)
(*                                                                         *)
(* The body of a request is None, a byte string PyStr(s), a text           *)
(* PyUnicode(s), a file, an iterable of byte strings, or some other        *)
(* object (an integer).  A piece of a body is [text, off, len]: the bytes  *)
(* of a string piece are its text; the bytes of a file piece are the len   *)
(* bytes of the file from offset off on.                                   *)
(***************************************************************************)
_METHODS_EXPECTING_BODY == {"PATCH", "POST", "PUT"}

\* fileiterator(f, chunksize=8192)
chunksize == 8192

CRLF == "\r\n"

PyFile(size) == [k |-> "file", v |-> "", size |-> size]
PyIter(items) == [k |-> "iter", v |-> "", items |-> items]

StrPiece(s) == [text |-> s, off |-> 0, len |-> Len(s)]
FilePiece(off, n) == [text |-> "", off |-> off, len |-> n]
EmptyPiece == StrPiece("")

HexDigits == <<"0", "1", "2", "3", "4", "5", "6", "7",
               "8", "9", "a", "b", "c", "d", "e", "f">>

\* hex(n)[2:] of a non-negative plain int
RECURSIVE Hex(_)
Hex(n) ==
  IF n < 16 THEN HexDigits[n + 1]
  ELSE Hex(n \div 16) \o HexDigits[(n % 16) + 1]

\* '%d' % n of a non-negative int
RECURSIVE Dec(_)
Dec(n) ==
  IF n < 10 THEN HexDigits[n + 1]
  ELSE Dec(n \div 10) \o HexDigits[(n % 10) + 1]

\* stringiterator() that yields the buffer whatever its length
stringiteratorAlways(buffer) == <<StrPiece(buffer)>>

\* stringiterator(buffer): the pieces the generator yields
stringiterator(buffer) ==
  IF Len(buffer) > 0 THEN <<StrPiece(buffer)>> ELSE <<>>

\* The pieces fileiterator yields for a file of the given size read from
\* offset off on: f.read(chunksize) until it returns no byte
RECURSIVE FileChunks(_, _)
FileChunks(size, off) ==
  LET n == IF size - off < chunksize THEN size - off ELSE chunksize
  IN IF n = 0 THEN <<>>
     ELSE <<FilePiece(off, n)>> \o FileChunks(size, off + n)

\* fileiterator(f)
fileiterator(f) == FileChunks(f.size, 0)

\* The pieces an iterable of byte strings yields
IterPieces(items) == [i \in DOMAIN items |-> StrPiece(items[i])]

\* self.send(hex(len(chunk))[2:].encode('ascii') + b"\r\n" + chunk + b"\r\n")
ChunkFrame(chunk) ==
  [head |-> Hex(chunk.len) \o CRLF, data |-> chunk, tail |-> CRLF]

\* self.send(chunk)
RawFrame(chunk) == [head |-> "", data |-> chunk, tail |-> ""]

\* self.send(b"0\r\n\r\n")
LastFrame == [head |-> "0" \o CRLF, data |-> EmptyPiece, tail |-> CRLF]

\* The iterator send_body() takes the pieces from, or the exception
BodyIter(body) ==
  CASE body.k = "str" -> Return(stringiterator(body.v))
    [] body.k = "unicode" ->
         IF body.v \in NonAsciiText THEN Raise("UnicodeEncodeError")
         ELSE Return(stringiterator(body.v))
    [] body.k = "file" -> Return(fileiterator(body))
    [] body.k = "iter" -> Return(IterPieces(body.items))
    [] OTHER -> Raise("TypeError")

\* send_body() that sends no terminating frame
send_bodyNoLast(body, chunked) ==
  IF body.k = "NoneType" THEN Return(<<>>)
  ELSE LET it == BodyIter(body)
       IN IF ~it.ok THEN it
          ELSE IF chunked
               THEN Return([i \in DOMAIN it.val |-> ChunkFrame(it.val[i])])
               ELSE Return([i \in DOMAIN it.val |-> RawFrame(it.val[i])])

\* send_body(body, chunked): the arguments of the self.send() calls, in
\* order, or the exception raised before the first of them
send_body(body, chunked) ==
  IF body.k = "NoneType" THEN Return(<<>>)
  ELSE LET it == BodyIter(body)
       IN IF ~it.ok THEN it
          ELSE IF chunked
               THEN Return([i \in DOMAIN it.val |-> ChunkFrame(it.val[i])]
                           \o <<LastFrame>>)
               ELSE Return([i \in DOMAIN it.val |-> RawFrame(it.val[i])])

\* The ASCII letters, the lower case letter and its upper case letter at
\* the same position
LowerLetters == "abcdefghijklmnopqrstuvwxyz"
UpperLetters == "ABCDEFGHIJKLMNOPQRSTUVWXYZ"

IsLetter(c) ==
  \E i \in 1..26 : c \in {SubSeq(LowerLetters, i, i),
                          SubSeq(UpperLetters, i, i)}

\* One character in upper and in lower case
UpperChar(c) ==
  IF \E i \in 1..26 : SubSeq(LowerLetters, i, i) = c
  THEN LET i == CHOOSE i \in 1..26 : SubSeq(LowerLetters, i, i) = c
       IN SubSeq(UpperLetters, i, i)
  ELSE c

LowerChar(c) ==
  IF \E i \in 1..26 : SubSeq(UpperLetters, i, i) = c
  THEN LET i == CHOOSE i \in 1..26 : SubSeq(UpperLetters, i, i) = c
       IN SubSeq(LowerLetters, i, i)
  ELSE c

\* str.upper()
RECURSIVE Upper(_)
Upper(s) == IF s = "" THEN "" ELSE UpperChar(Head(s)) \o Upper(Tail(s))

\* str.lower()
RECURSIVE Lower(_)
Lower(s) == IF s = "" THEN "" ELSE LowerChar(Head(s)) \o Lower(Tail(s))

\* str.capitalize(): the first character in upper case, the rest in lower
Capitalize(s) ==
  IF s = "" THEN "" ELSE UpperChar(Head(s)) \o Lower(Tail(s))

\* str.title() from a position on: a letter that follows a letter in lower
\* case, any other letter in upper case
RECURSIVE TitleFrom(_, _)
TitleFrom(s, inword) ==
  IF s = "" THEN ""
  ELSE (IF inword THEN LowerChar(Head(s)) ELSE UpperChar(Head(s)))
         \o TitleFrom(Tail(s), IsLetter(Head(s)))

\* str.title()
Title(s) == TitleFrom(s, FALSE)

\* request.has_header(name)
has_header(req, name) ==
  name \in DOMAIN req.headers \/ name \in DOMAIN req.unredirected_hdrs

\* request.add_unredirected_header(key, val)
add_unredirected_header(req, key, val) ==
  [req EXCEPT !.unredirected_hdrs = DictSet(@, Capitalize(key), val)]

\* The loop over self.parent.addheaders, from entry i on
RECURSIVE AddDefaults(_, _, _)
AddDefaults(req, hdrs, i) ==
  IF i > Len(hdrs) THEN req
  ELSE LET name == Capitalize(hdrs[i][1])
       IN AddDefaults(IF has_header(req, name) THEN req
                      ELSE add_unredirected_header(req, name, hdrs[i][2]),
                      hdrs, i + 1)

\* The framing part of do_request_() that adds Transfer-Encoding: chunked
\* for every request with data
FramingAlwaysChunked(req) ==
  IF req.data.k # "NoneType"
  THEN IF ~has_header(req, "Content-type")
       THEN [ok |-> FALSE, err |-> "URLError: no Content-type header given",
             req |-> req]
       ELSE IF ~has_header(req, "Content-length")
            THEN [ok |-> TRUE, err |-> "",
                  req |-> add_unredirected_header(
                            IF req.data.k \in {"str", "unicode"}
                            THEN add_unredirected_header(
                                   req, "Content-length",
                                   Dec(Len(req.data.v)))
                            ELSE req,
                            "Transfer-Encoding", "chunked")]
            ELSE [ok |-> TRUE, err |-> "", req |-> req]
  ELSE IF Upper(req.method) \in _METHODS_EXPECTING_BODY
       THEN [ok |-> TRUE, err |-> "",
             req |-> add_unredirected_header(req, "Content-length", "0")]
       ELSE [ok |-> TRUE, err |-> "", req |-> req]

\* do_request_(), the part that looks at request.data: the request as the
\* part leaves it, and the exception if it raises
Framing(req) ==
  IF req.data.k # "NoneType"
  THEN IF ~has_header(req, "Content-type")
       THEN [ok |-> FALSE, err |-> "URLError: no Content-type header given",
             req |-> req]
       ELSE IF ~has_header(req, "Content-length")
            THEN IF req.data.k \in {"str", "unicode"}
                 THEN [ok |-> TRUE, err |-> "",
                       req |-> add_unredirected_header(
                                 req, "Content-length",
                                 Dec(Len(req.data.v)))]
                 ELSE [ok |-> TRUE, err |-> "",
                       req |-> add_unredirected_header(
                                 req, "Transfer-Encoding", "chunked")]
            ELSE [ok |-> TRUE, err |-> "", req |-> req]
  ELSE IF Upper(req.method) \in _METHODS_EXPECTING_BODY
       THEN [ok |-> TRUE, err |-> "",
             req |-> add_unredirected_header(req, "Content-length", "0")]
       ELSE [ok |-> TRUE, err |-> "", req |-> req]

\* do_request_(request) of a handler whose parent has the given addheaders:
\* the request object as the call leaves it, and the exception if it raises.
\* splittype and splithost are not defined in the module, so a request
\* through a proxy ends with a NameError.
HandleRequest(req, hdrs) ==
  IF req.host = "" THEN
    [ok |-> FALSE, err |-> "URLError: no host given", req |-> req]
  ELSE LET fr == Framing(req)
       IN IF ~fr.ok THEN fr
          ELSE IF req.has_proxy
               THEN [ok |-> FALSE, err |-> "NameError", req |-> fr.req]
               ELSE LET withhost ==
                          IF has_header(fr.req, "Host") THEN fr.req
                          ELSE add_unredirected_header(fr.req, "Host",
                                                       req.host)
                    IN [ok |-> TRUE, err |-> "",
                        req |-> AddDefaults(withhost, hdrs, 1)]

\* The headers AbstractHTTPHandler.do_open() hands to the connection: the
\* unredirected headers, then the headers not among them, and Connection:
\* close, all names in title case
OpenHeaders(req) ==
  LET names == DOMAIN req.unredirected_hdrs \cup DOMAIN req.headers
      value(n) == IF n \in DOMAIN req.unredirected_hdrs
                  THEN req.unredirected_hdrs[n] ELSE req.headers[n]
      titled == {Title(n) : n \in names} \cup {"Connection"}
  IN [t \in titled |->
        IF t = "Connection" THEN "close"
        ELSE value(CHOOSE n \in names : Title(n) = t)]

\* _send_request(): whether the headers ask for chunked transfer, or the
\* exception raised for another transfer encoding (HTTPException is not
\* defined in the module: NameError)
Chunked(headers) ==
  LET te == {k \in DOMAIN headers : Lower(k) = "transfer-encoding"}
  IN IF te = {} THEN Return(FALSE)
     ELSE IF headers[CHOOSE k \in te : TRUE] = "chunked" THEN Return(TRUE)
          ELSE Raise("NameError")

(***************************************************************************)
(* The requests of the model.                                              *)
(***************************************************************************)
Bodies ==
  {None, PyStr(""), PyStr("hello"), PyStr("0123456789abcdef"),
   PyUnicode("hello"), PyUnicode("Stra?e"),
   PyFile(0), PyFile(5), PyFile(chunksize), PyFile(chunksize + 1),
   PyIter(<<>>), PyIter(<<"ab", "c">>), PyIter(<<"ab", "", "c">>),
   PyInt("5")}

Methods == {"GET", "POST", "put", "Put", "PATCH", "patch", "DELETE"}

\* Headers the caller has set with add_header() (names capitalized)
CallerHeaders ==
  {h1 @@ h2 @@ h3 :
     h1 \in {EmptyDict, "Content-type" :> "application/octet-stream"},
     h2 \in {EmptyDict, "Content-length" :> "5"},
     h3 \in {EmptyDict, "Transfer-encoding" :> "chunked",
             "Transfer-encoding" :> "gzip"}}

Requests ==
  {[host |-> h, data |-> d, method |-> m, has_proxy |-> p, headers |-> hs,
    unredirected_hdrs |-> EmptyDict] :
     h \in {"", "icat.example.org"}, d \in Bodies, m \in Methods,
     p \in BOOLEAN, hs \in CallerHeaders}

\* The addheaders of an OpenerDirector: the default, and none
AddHeaders == {<<<<"User-agent", "Python-urllib/2.7">>>>, <<>>}

NoRequest ==
  [host |-> "", data |-> None, method |-> "", has_proxy |-> FALSE,
   headers |-> EmptyDict, unredirected_hdrs |-> EmptyDict]

(***************************************************************************)
(* The handler and the connection serving one request.                     *)
(***************************************************************************)
HttpInit ==
  /\ request \in Requests
  /\ addheaders \in AddHeaders
  /\ putheaders = EmptyDict
  /\ sent = <<>>
  /\ hres = "ok"
  /\ hpc = "request"

\* ChunkedHTTPHandler.http_request: do_request_(request)
do_request_ ==
  /\ hpc = "request"
  /\ LET r == HandleRequest(request, addheaders)
     IN /\ request' = r.req
        /\ hres' = IF r.ok THEN "ok" ELSE r.err
        /\ hpc' = IF r.ok THEN "handled" ELSE "rejected"
  /\ UNCHANGED <<addheaders, putheaders, sent>>
  /\ UNCHANGED <<wvars, rvars, cvars>>

\* ChunkedHTTPConnection._send_request(method, url, body, headers) as
\* do_open() calls it for the handled request
_send_request ==
  /\ hpc = "handled"
  /\ LET headers == OpenHeaders(request)
         chunked == Chunked(headers)
     IN IF ~chunked.ok
        THEN /\ hres' = chunked.err
             /\ hpc' = "failed"
             /\ UNCHANGED <<putheaders, sent>>
        ELSE LET b == send_body(request.data, chunked.val)
             IN /\ putheaders' = headers
                /\ sent' = IF b.ok THEN b.val ELSE <<>>
                /\ hres' = IF b.ok THEN "ok" ELSE b.err
                /\ hpc' = IF b.ok THEN "sent" ELSE "failed"
  /\ UNCHANGED <<request, addheaders>>
  /\ UNCHANGED <<wvars, rvars, cvars>>
(***************************************************************************)
(* Specifications                                                          *)
(***************************************************************************)
ReaderIdle ==
  /\ stream = <<>> /\ ci = 0 /\ gen = [ti |-> 0, todo |-> {}, live |-> FALSE]
  /\ yq = <<>> /\ objindex = EmptyDict /\ created = <<>> /\ rres = "ok"
  /\ trace = <<>>

CodecIdle ==
  /\ cobj = NoneObj /\ crec = EmptyDict /\ ctype = "" /\ cidx = EmptyDict
  /\ ckeyindex = EmptyDict /\ ckeyafter = EmptyDict
  /\ cenc = Raise("") /\ cdec = Raise("") /\ cpc = "idle"

HttpIdle ==
  /\ request = NoRequest /\ addheaders = <<>> /\ putheaders = EmptyDict
  /\ sent = <<>> /\ hres = "ok" /\ hpc = "idle"

WriterIdle ==
  /\ data = EmptyDict /\ out = <<>> /\ wres = "ok" /\ wop = <<"init", "init">>

Init == WriterInit /\ ReaderIdle /\ CodecIdle /\ HttpIdle

Next == head \/ startdata \/ Add \/ finalize

Spec == Init /\ [][Next]_vars

InitCodec == WriterIdle /\ ReaderIdle /\ CodecInit /\ HttpIdle

NextCodec == Encode \/ AddEntity \/ DecodeEncoded \/ DecodeRecord

SpecCodec == InitCodec /\ [][NextCodec]_vars

InitReader == WriterIdle /\ ReaderInit /\ CodecIdle /\ HttpIdle

NextReader == getdata \/ getobjs \/ restore

SpecReader == InitReader /\ [][NextReader]_vars

InitHttp == WriterIdle /\ ReaderIdle /\ CodecIdle /\ HttpInit

NextHttp == do_request_ \/ _send_request

SpecHttp == InitHttp /\ [][NextHttp]_vars


(***************************************************************************)
(* Claims about the writer, checked under Spec.                            *)
(***************************************************************************)
\* C1: startdata() writes the whole staged chunk as exactly one document when
\* at least one record is staged, writes nothing when no record is staged,
\* and leaves the staging empty in both cases.
C1_StartdataWritesStagedRecords ==
  [][startdata =>
       /\ data' = EmptyDict
       /\ out' = IF Staged(data) # {} THEN Append(out, Document(data))
                 ELSE out]_vars

\* C2: a finalize() that directly follows a finalize() writes nothing and
\* leaves the output and the staging as they were.
C2_FinalizeIdempotent ==
  [][(wop[2] = "finalize" /\ finalize) => (out' = out /\ data' = data)]_vars

\* A second finalize() was called after the first one wrote a document.
C2_Witness ==
  /\ wop = <<"finalize", "finalize">>
  /\ \E i \in 1..Len(out) : out[i].kind = "doc"

\* C7: add() with a tag outside entitytypes raises the unknown entity type
\* error and leaves the staged chunk and the output as they were.
C7_AddUnknownTagStagesNothing ==
  [][\A c \in AddCalls :
       (~IsEntityType(c[1]) /\ add(c[1], c[2], c[3], WriterKeyindex))
       => /\ wres' = "ValueError: Unknown entity type"
          /\ data' = data
          /\ out' = out]_vars

\* add() with an unknown tag was refused while records were staged.
C7_Witness ==
  /\ wop[2] = "add"
  /\ wres = "ValueError: Unknown entity type"
  /\ Staged(data) # {}

\* C17: the output holds at most one header, and no chunk document comes
\* before a header.
C17_HeaderOnceBeforeChunks ==
  /\ Cardinality({i \in DOMAIN out : out[i].kind = "head"}) <= 1
  /\ \A i, j \in DOMAIN out :
       (out[i].kind = "doc" /\ out[j].kind = "head") => j < i
\* The chunk has a type tag with no record under it
HasEmptyTag(chunk) == \E t \in DOMAIN chunk : DOMAIN chunk[t] = {}

\* C21: no loss and no duplication, step by step.  A document once written
\* stays where it is; an add() of a pair not yet staged stages the pair's
\* record and leaves the other staged records alone; a failed add() stages
\* nothing; startdata() and finalize() move all staged records into one new
\* document, which is the last and is not empty, write nothing when nothing
\* is staged, and leave nothing staged.
C21_NoLossNoDuplication ==
  [][/\ Len(out') >= Len(out)
     /\ \A i \in DOMAIN out : out'[i] = out[i]
     /\ (startdata \/ finalize) =>
          /\ data' = EmptyDict
          /\ out' = IF Staged(data) = {} THEN out
                    ELSE Append(out, Document(data))
          /\ out' # out =>
               /\ Staged(out'[Len(out')].doc) # {}
               /\ ~HasEmptyTag(out'[Len(out')].doc)
     /\ \A c \in AddCalls :
          (add(c[1], c[2], c[3], WriterKeyindex) /\ wres' = "ok"
             /\ <<c[1], c[2]>> \notin Staged(data)) =>
            /\ out' = out
            /\ Staged(data') = Staged(data) \cup {<<c[1], c[2]>>}
            /\ data'[c[1]][c[2]] = entity2dict(c[3], WriterKeyindex).val
            /\ \A p \in Staged(data) : data'[p[1]][p[2]] = data[p[1]][p[2]]
     /\ (wop'[2] = "add" /\ wres' # "ok") =>
          (out' = out /\ Staged(data') = Staged(data))
     /\ head => data' = data]_vars
\* C22: a failed add() leaves the staged chunk exactly as it was, and no
\* written document has a type tag with no record under it.
C22_FailedAddLeavesWriterUnchanged ==
  [][/\ (wop'[2] = "add" /\ wres' # "ok") => (data' = data /\ out' = out)
     /\ \A i \in DOMAIN out' : ~HasEmptyTag(out'[i].doc)]_vars
\* C23: a successful add() leaves exactly one record under its tag and key,
\* the record of this add, whatever was staged there before, and touches no
\* other key of the tag; a flush writes the staged record of every pair
\* into the new document, whether or not an earlier document has the pair.
C23_LaterAddReplaces ==
  [][/\ \A c \in AddCalls :
          (add(c[1], c[2], c[3], WriterKeyindex) /\ wres' = "ok") =>
            /\ DOMAIN data'[c[1]] =
                 (IF c[1] \in DOMAIN data THEN DOMAIN data[c[1]] ELSE {})
                   \cup {c[2]}
            /\ data'[c[1]][c[2]] = entity2dict(c[3], WriterKeyindex).val
            /\ \A k \in DOMAIN data'[c[1]] \ {c[2]} :
                 data'[c[1]][k] = data[c[1]][k]
     /\ ((startdata \/ finalize) /\ Staged(data) # {}) =>
          /\ Len(out') = Len(out) + 1
          /\ Staged(out'[Len(out')].doc) = Staged(data)
          /\ \A p \in Staged(data) :
               out'[Len(out')].doc[p[1]][p[2]] = data[p[1]][p[2]]]_vars

\* The first chunk was written with the record of UserA under ("user", "k1"),
\* and the second chunk, after two adds, stages the record of UserB there.
C23_Witness ==
  /\ Len(out) = 1
  /\ out[1].doc = DictSet(EmptyDict, "user", DictSet(EmptyDict, "k1",
                          entity2dict(UserA, WriterKeyindex).val))
  /\ wop = <<"add", "add">>
  /\ data = DictSet(EmptyDict, "user", DictSet(EmptyDict, "k1",
                    entity2dict(UserB, WriterKeyindex).val))
(***************************************************************************)
(* Claims about entity2dict and dict2entity, checked under SpecCodec.      *)
(***************************************************************************)
\* The objects an entity and its children refer to by to-one relations
RECURSIVE RelatedObjects(_)
RelatedObjects(e) ==
  {e.rels[r] : r \in RelFields(e)}
  \cup UNION { UNION { RelatedObjects(e.mrels[m][i]) :
                         i \in 1..Len(e.mrels[m]) } : m \in InstMRel(e.cls) }

\* kidx (object id -> key) and idx (key -> object) map the same keys to the
\* same objects, for the objects e refers to
IndexesAgree(e, kidx, idx) ==
  \A o \in RelatedObjects(e) :
    /\ CanUniqueKey(o, kidx)
    /\ getUniqueKey(o, kidx) \in DOMAIN idx
    /\ idx[getUniqueKey(o, kidx)] = o

\* Entity b has the plain attributes (id apart), the to-one relations and
\* the to-many children of entity a; children are compared as collections
RECURSIVE SameEntity(_, _)
SameEntity(a, b) ==
  /\ a.cls = b.cls
  /\ \A f \in InstAttr(a.cls) \ {"id"} : PyEq(a.attrs[f], b.attrs[f])
  /\ \A r \in InstRel(a.cls) : a.rels[r] = b.rels[r]
  /\ \A m \in InstMRel(a.cls) :
       /\ Len(a.mrels[m]) = Len(b.mrels[m])
       /\ \E p \in [1..Len(a.mrels[m]) -> 1..Len(a.mrels[m])] :
            /\ \A i, j \in DOMAIN p : p[i] = p[j] => i = j
            /\ \A i \in DOMAIN p : SameEntity(a.mrels[m][i], b.mrels[m][p[i]])

\* C6: dict2entity(entity2dict(E, idx), type(E), idx') has every plain
\* attribute other than id, every to-one relation and every to-many child
\* collection of E, when idx and idx' agree.
C6_RoundTrip ==
  (cpc = "roundtrip" /\ IndexesAgree(cobj, ckeyindex, cidx))
  => (cdec.ok /\ SameEntity(cobj, cdec.val))

\* The record d of type objtype, or a child record nested in it, has a field
\* that its class declares neither in InstAttr, InstRel nor InstMRel
RECURSIVE HasUndeclaredField(_, _)
HasUndeclaredField(d, objtype) ==
  LET cls == TypeMap(objtype)
      declared == InstAttr(cls) \cup InstRel(cls) \cup InstMRel(cls)
      nested == (DOMAIN d \cap InstMRel(cls)) \ (InstAttr(cls) \cup InstRel(cls))
  IN \/ \E f \in DOMAIN d : f \notin declared
     \/ \E m \in nested : \E i \in 1..Len(d[m]) :
          HasUndeclaredField(d[m][i], MRelType(cls, m))

\* C8: dict2entity on a record with an undeclared field, at the top level or
\* in a nested child record, raises an error and returns no entity.
C8_UnknownFieldRejected ==
  (cpc = "decoded" /\ HasUndeclaredField(crec, ctype))
  => (~cdec.ok /\ cdec.val = <<>>)

\* A record whose only undeclared field sits in a nested child was decoded,
\* with every to-one relation of it resolvable.
C8_Witness ==
  /\ cpc = "decoded"
  /\ "bogus" \notin DOMAIN crec
  /\ HasUndeclaredField(crec, ctype)
  /\ \A r \in RelKeys(crec, TypeMap(ctype)) : CanSearchUniqueKey(crec[r], cidx)
  /\ ~cdec.ok

\* C10: entity2dict fails when the entity exposes a field that InstAttr,
\* InstRel and InstMRel of its class do not declare.
C10_EncoderRejectsUndeclared ==
  (cpc = "encoded" /\ cobj.extra # {}) => ~cenc.ok

\* The children of a to-many relation of obj, paired with the child records
\* of rec in the order entity2dict emits them
ChildPairs(obj, rec, m) ==
  IF m \in DOMAIN rec /\ Len(rec[m]) = Len(obj.mrels[m])
  THEN {<<sorted(obj.mrels[m])[i], rec[m][i]>> : i \in 1..Len(rec[m])}
  ELSE {}

\* In rec, the record of obj, every to-one relation of obj whose target is
\* present is the string of the target's unique key, and one whose target is
\* absent has no field; the same for the children nested in rec
RECURSIVE RelationsAsKeys(_, _, _)
RelationsAsKeys(obj, rec, keyindex) ==
  /\ \A r \in InstRel(obj.cls) :
       IF obj.rels[r] # None
       THEN /\ r \in DOMAIN rec
            /\ rec[r] = PyStr(getUniqueKey(obj.rels[r], keyindex))
            /\ rec[r].k = "str"
       ELSE r \notin DOMAIN rec
  /\ \A m \in InstMRel(obj.cls) : \A p \in ChildPairs(obj, rec, m) :
       RelationsAsKeys(p[1], p[2], keyindex)

\* C11: the record entity2dict returns holds, for every to-one relation whose
\* target is present, the target's unique key string under the relation's
\* name (no nested record, no numeric id), and no field for a to-one
\* relation whose target is absent.
C11_ToOneAsKeyString ==
  (cpc = "encoded" /\ cenc.ok) => RelationsAsKeys(cobj, cenc.val, ckeyindex)

\* A dataset with its type set and two parameters, each with a type, was
\* encoded: the record holds the key of the dataset type, whether the key
\* came from the keyindex or was computed.
C11_Witness ==
  /\ cpc = "encoded" /\ cenc.ok
  /\ cobj.cls = "Dataset43"
  /\ cobj.rels["type"] = DatasetTypeRaw
  /\ cobj.rels["sample"] = None
  /\ Len(cobj.mrels["parameters"]) = 2
  /\ cenc.val["type"] = PyStr("DatasetType_name-raw")
  /\ cenc.val["parameters"][1]["type"] = PyStr(ParameterTemp.v)

\* In rec, the record of obj, there is no field id, a plain attribute has a
\* field iff its value is not None, a to-many relation has a field iff its
\* collection is not empty, with one record per child, and no field is
\* outside what the class declares; the same for the children nested in rec
RECURSIVE OnlyPresentFields(_, _)
OnlyPresentFields(obj, rec) ==
  /\ "id" \notin DOMAIN rec
  /\ DOMAIN rec \subseteq
       InstAttr(obj.cls) \cup InstRel(obj.cls) \cup InstMRel(obj.cls)
  /\ \A a \in InstAttr(obj.cls) \ {"id"} :
       a \in DOMAIN rec <=> obj.attrs[a] # None
  /\ \A m \in InstMRel(obj.cls) :
       /\ m \in DOMAIN rec <=> Len(obj.mrels[m]) > 0
       /\ m \in DOMAIN rec => Len(rec[m]) = Len(obj.mrels[m])
       /\ \A p \in ChildPairs(obj, rec, m) : OnlyPresentFields(p[1], p[2])

\* C12: the record entity2dict returns never has the field id, has a plain
\* attribute iff its value is not None and a to-many relation iff its
\* collection is not empty, in the record and in every nested child record.
C12_OnlyPresentFields ==
  (cpc = "encoded" /\ cenc.ok) => OnlyPresentFields(cobj, cenc.val)

\* A dataset with an id, an attribute that is None and two children was
\* encoded next to attributes that are set.
C12_Witness ==
  /\ cpc = "encoded" /\ cenc.ok
  /\ cobj.cls = "Dataset43"
  /\ cobj.attrs["id"] # None
  /\ cobj.attrs["complete"] = None
  /\ cobj.attrs["startDate"] # None
  /\ Len(cobj.mrels["parameters"]) = 2
  /\ DOMAIN cenc.val = {"name", "startDate", "parameters"}
\* The orders a collection may be iterated in
Reorderings(s) ==
  { [i \in 1..Len(s) |-> s[p[i]]] :
      p \in {q \in [1..Len(s) -> 1..Len(s)] :
               \A i, j \in 1..Len(s) : q[i] = q[j] => i = j} }

\* The entities that are obj with the to-many collections iterated in
\* another order
ReorderedEntities(obj) ==
  { [obj EXCEPT !.mrels = ms] :
      ms \in {f \in [InstMRel(obj.cls) -> UNION {Reorderings(obj.mrels[m]) :
                                                  m \in InstMRel(obj.cls)}] :
                \A m \in InstMRel(obj.cls) : f[m] \in Reorderings(obj.mrels[m])} }

\* The child records of every to-many relation in rec, the record of obj,
\* are the records of the children taken in ascending order of sort key
ChildrenAscending(obj, rec, keyindex) ==
  \A m \in MRelFields(obj) :
    \E s \in Reorderings(obj.mrels[m]) :
      /\ \A i, j \in 1..Len(s) : i < j => sortkey(s[i]) <= sortkey(s[j])
      /\ rec[m] = [i \in 1..Len(s) |-> entity2dict(s[i], keyindex).val]

\* C13: entity2dict emits the children of a to-many relation in the order
\* of their sort keys, and the entity with its collections iterated in any
\* other order is encoded to the same result.  (Children with equal sort
\* keys are among the inputs.)
C13_ReproducibleEncoding ==
  cpc = "encoded" =>
    /\ cenc.ok => ChildrenAscending(cobj, cenc.val, ckeyindex)
    /\ \A e \in ReorderedEntities(cobj) : entity2dict(e, ckeyindex) = cenc

\* The to-one relation targets of obj and of the children in its to-many
\* relations, at every depth
RECURSIVE RelationTargets(_)
RelationTargets(obj) ==
  IF obj.cls = "NoneType" THEN {}
  ELSE {obj.rels[r] : r \in RelFields(obj)}
       \cup UNION {UNION {RelationTargets(obj.mrels[m][i]) :
                           i \in 1..Len(obj.mrels[m])} : m \in MRelFields(obj)}

\* after has every entry of before, and an entry it has more maps the id of
\* a to-one relation target of obj to the unique key of that target
OnlyCachesKeys(obj, before, after) ==
  /\ \A i \in DOMAIN before : i \in DOMAIN after /\ after[i] = before[i]
  /\ \A i \in DOMAIN after \ DOMAIN before :
       \E o \in RelationTargets(obj) : o.id = i /\ o.v # "" /\ after[i] = o.v

ChildrenInInputOrder(d, objtype, ent, idx) ==
  \A m \in MRelKeys(d, TypeMap(objtype)) :
    /\ Len(ent.mrels[m]) = Len(d[m])
    /\ \A i \in 1..Len(d[m]) :
         /\ ent.mrels[m][i].cls = TypeMap(MRelType(TypeMap(objtype), m))
         /\ Return(ent.mrels[m][i])
              \in dict2entity(d[m][i], MRelType(TypeMap(objtype), m), idx)
         /\ \A a \in DOMAIN d[m][i] \cap InstAttr(ent.mrels[m][i].cls) :
              ent.mrels[m][i].attrs[a] = d[m][i][a]

\* C16: the entity dict2entity returns has, in every to-many relation the
\* record has a field for, the decoded child records in the order of the
\* input list, one child per child record, of the declared child type.
C16_ChildrenInInputOrder ==
  (cpc \in {"decoded", "roundtrip"} /\ cdec.ok)
  => ChildrenInInputOrder(crec, ctype, cdec.val, cidx)

\* A dataset record with two different parameter records was decoded into a
\* dataset with two DatasetParameter children in the order of the records.
C16_Witness ==
  /\ cpc = "roundtrip" /\ cdec.ok
  /\ ctype = "dataset"
  /\ "parameters" \in DOMAIN crec
  /\ Len(crec["parameters"]) = 2
  /\ crec["parameters"][1] # crec["parameters"][2]
  /\ cdec.val.mrels["parameters"][1].cls = "DatasetParameter"
  /\ cdec.val.mrels["parameters"][1].attrs["stringValue"] = PyStr("cold")
  /\ cdec.val.mrels["parameters"][2].attrs["stringValue"] = None
\* The value rec holds for the plain attribute value v: a bool as it is, an
\* int or long as an integer of the same value, a float as a float, a
\* datetime as its ISO text, with Z appended when it has no zone
NormalizedScalar(v, x) ==
  CASE v.k = "bool" -> x = v
    [] v.k \in {"int", "long"} -> x.k \in {"int", "long"} /\ x.v = v.v
    [] v.k = "float" -> x.k = "float" /\ x.v = v.v
    [] v.k = "datetime" -> x = PyStr(v.v \o "Z")
    [] v.k = "datetime_tz" -> x = PyStr(v.v)
    [] OTHER -> TRUE

\* Every plain attribute in rec, the record of obj, and in the child records
\* nested in it is the normalized value of the entity's attribute
RECURSIVE NormalizedRecord(_, _)
NormalizedRecord(obj, rec) ==
  /\ \A a \in DOMAIN rec \cap InstAttr(obj.cls) :
       NormalizedScalar(obj.attrs[a], rec[a])
  /\ \A m \in InstMRel(obj.cls) : \A p \in ChildPairs(obj, rec, m) :
       NormalizedRecord(p[1], p[2])

\* C19: entity2dict emits a bool unchanged, an integer of either width as an
\* integer, a float as a number and not as a string, a datetime without zone
\* as ISO text with Z and one with a zone with its offset.
C19_ScalarsNormalized ==
  (cpc = "encoded" /\ cenc.ok) => NormalizedRecord(cobj, cenc.val)
\* Number of records nested in each other in the record d of class cls
RECURSIVE RecordDepth(_, _)
RecordDepth(d, cls) ==
  LET ds == UNION { {RecordDepth(d[m][i], TypeMap(MRelType(cls, m))) :
                       i \in 1..Len(d[m])} :
                    m \in DOMAIN d \cap InstMRel(cls) }
  IN IF ds = {} THEN 1
     ELSE 1 + CHOOSE x \in ds : \A y \in ds : y <= x

\* C20: entity2dict returns on every entity, also on one whose child refers
\* back to it by a to-one relation; no class is reached from itself by the
\* nested calls, in either schema variant, and the records nested in each
\* other are no more than the classes that can be reached.
C20_EncodeTerminates ==
  cpc = "encoded" =>
    /\ \A v \in SchemaVariants : \A c \in Classes(v) :
         c \notin NestedClasses(ChildClasses(c, v), v)
    /\ cenc.ok =>
         RecordDepth(cenc.val, cobj.cls)
           <= Cardinality(NestedClasses({cobj.cls}, "4.3"))

\* A dataset whose parameter refers back to the dataset was encoded: the
\* record nests the parameter's record, which names the dataset by its key.
C20_Witness ==
  /\ cpc = "encoded" /\ cenc.ok
  /\ cobj.cls = "Dataset43"
  /\ cobj.mrels["parameters"] = <<ParameterBack>>
  /\ ParameterBack.rels["dataset"].id = 7 /\ cobj.attrs["id"] = PyLong("7")
  /\ cenc.val["parameters"][1]["dataset"] = PyStr("Dataset_name-e208945")
  /\ RecordDepth(cenc.val, cobj.cls) = 2
(***************************************************************************)
(* Claims about the reader, checked under SpecReader.                      *)
(***************************************************************************)
\* C3: within a chunk, no record of a type is decoded and yielded after a
\* record of a type that comes later in entitytypes.
C3_TypesInOrder ==
  \A i, j \in DOMAIN trace :
    (i < j /\ trace[i].chunk = trace[j].chunk)
    => TypeIndex(trace[i].tag) <= TypeIndex(trace[j].tag)

\* All four records of ChunkBase, of three types, were yielded and created.
C3_Witness ==
  /\ stream[1] = ChunkBase
  /\ Len(created) = 4
  /\ {created[i].tag : i \in DOMAIN created}
       = {"user", "facility", "parameterType"}

\* Every key a record of the stream refers to is the key of a record the
\* restore creates before it: one of an earlier chunk, or one of the same
\* chunk under a type that comes earlier in entitytypes
DependencyOrdered(st) ==
  \A c \in DOMAIN st : \A t \in DOMAIN st[c] : \A k \in DOMAIN st[c][t] :
    IsEntityType(t) =>
      \A target \in RefKeys(st[c][t][k], t) :
        \/ \E b \in 1..(c - 1) : \E u \in DOMAIN st[b] :
             IsEntityType(u) /\ target \in DOMAIN st[b][u]
        \/ \E u \in DOMAIN st[c] :
             /\ IsEntityType(u) /\ TypeIndex(u) < TypeIndex(t)
             /\ target \in DOMAIN st[c][u]

\* C4: on a dependency-ordered stream, whenever a record is decoded every key
\* its to-one relations name is in the key index, and every entity yielded
\* before has been created and registered by the caller.
C4_TargetsRegisteredBeforeDecode ==
  DependencyOrdered(stream) =>
    \A i \in DOMAIN trace :
      trace[i].unresolved = {} /\ trace[i].pending = 0

\* The parameter type of ChunkBase was decoded after its facility, and the
\* study of the next chunk after the user of the first.
C4_Witness ==
  /\ stream = <<ChunkBase, ChunkStudy>>
  /\ DependencyOrdered(stream)
  /\ \E i \in DOMAIN trace : trace[i].tag = "parameterType" /\ trace[i].ok
  /\ \E i \in DOMAIN trace : trace[i].tag = "study" /\ trace[i].ok

\* C5: when decoding a record of a chunk fails, no entity of that chunk has
\* been created.
C5_ChunkAtomicOnRead ==
  \A i \in DOMAIN trace :
    ~trace[i].ok
    => \A j \in DOMAIN created : created[j].chunk # trace[i].chunk

\* C9: getobjs() on a chunk with a tag outside entitytypes fails: it does not
\* run to its end without an error.
C9_UnknownTagFatal ==
  (ci >= 1 /\ ~gen.live /\ rres = "ok")
  => \A t \in DOMAIN stream[ci] : IsEntityType(t)

\* C14: a step of getobjs(), and the dict2entity call it makes, issues no
\* create call and does not register the entity it yields in the key index:
\* under the key of the yielded entity the index holds what it held before.
C14_DecodeDoesNotPersist ==
  [][getobjs =>
       /\ created' = created
       /\ Len(yq') > Len(yq) =>
            LET key == yq'[Len(yq')].key
            IN IF key \in DOMAIN objindex
               THEN key \in DOMAIN objindex' /\ objindex'[key] = objindex[key]
               ELSE key \notin DOMAIN objindex']_vars

\* getobjs() has yielded an entity of the second chunk that the caller has
\* not handled yet: it is neither created nor in the key index under its key.
C14_Witness ==
  /\ ci = 2
  /\ Len(yq) = 1
  /\ yq[1].key \notin DOMAIN objindex
  /\ created # <<>>
  /\ \A i \in DOMAIN created : created[i].key # yq[1].key

\* C18: for the type of every record the reader decodes and every to-one
\* relation the class of the type declares in either schema variant, the
\* type of the relation's target is in entitytypes at a strictly earlier
\* position.
C18_OrderRespectsToOne ==
  \A n \in DOMAIN trace : \A v \in SchemaVariants :
    \A r \in InstRel(ClassOf(trace[n].tag, v)) :
      BeanIndex(RelTargetBean(ClassOf(trace[n].tag, v), r))
        \in 1..(TypeIndex(trace[n].tag) - 1)


(***************************************************************************)
(* Claims about chunkedhttp.py, checked under SpecHttp.                    *)
(***************************************************************************)
\* The connection was asked for chunked transfer
SentChunked ==
  "Transfer-Encoding" \in DOMAIN putheaders
    /\ putheaders["Transfer-Encoding"] = "chunked"

\* The lengths of the pieces of the model's bodies, in hexadecimal
HexText ==
  [n \in {0, 1, 2, 5, 16, 8192} |->
     CASE n = 0 -> "0" [] n = 1 -> "1" [] n = 2 -> "2" [] n = 5 -> "5"
       [] n = 16 -> "10" [] n = 8192 -> "2000"]

\* frames[1..n] carry, in order and without a gap, the bytes of the body
RECURSIVE CarriesBody(_, _, _, _)
CarriesBody(frames, n, body, i) ==
  CASE body.k \in {"str", "unicode"} ->
         IF body.v = "" THEN n = 0
         ELSE n = 1 /\ frames[1].data = [text |-> body.v, off |-> 0,
                                         len |-> Len(body.v)]
    [] body.k = "iter" ->
         /\ n = Len(body.items)
         /\ \A j \in 1..n :
              frames[j].data = [text |-> body.items[j], off |-> 0,
                                len |-> Len(body.items[j])]
    [] body.k = "file" ->
         \* i counts the frames seen so far
         IF i = n
         THEN (IF n = 0 THEN 0
               ELSE frames[n].data.off + frames[n].data.len) = body.size
         ELSE /\ frames[i + 1].data.off =
                   (IF i = 0 THEN 0
                    ELSE frames[i].data.off + frames[i].data.len)
              /\ frames[i + 1].data.len \in 1..8192
              /\ CarriesBody(frames, n, body, i + 1)
    [] OTHER -> FALSE

\* C24: after send_body() has returned, with chunked true and a body given,
\* the sends are one frame "<hex length>CRLF<data>CRLF" for every piece of
\* the body, in the order of the body, and then, once and last, the frame
\* "0CRLFCRLF"; for a string or a file no data frame has length zero, so an
\* empty string or file sends the terminating frame alone.  With body None
\* nothing is sent, and nothing is sent when send_body() raises.
C24_ChunkedFraming ==
  /\ (hpc = "sent" /\ request.data.k = "NoneType") => sent = <<>>
  /\ hpc = "failed" => sent = <<>>
  /\ (hpc = "sent" /\ SentChunked /\ request.data.k # "NoneType") =>
       LET n == Len(sent) - 1
       IN /\ n >= 0
          /\ sent[n + 1] = [head |-> "0\r\n",
                            data |-> [text |-> "", off |-> 0, len |-> 0],
                            tail |-> "\r\n"]
          /\ \A i \in 1..n :
               /\ sent[i].head = HexText[sent[i].data.len] \o "\r\n"
               /\ sent[i].tail = "\r\n"
          /\ CarriesBody(sent, n, request.data, 0)
          /\ request.data.k \in {"str", "unicode", "file"} =>
               \A i \in 1..n : sent[i].data.len > 0

\* A file of one byte more than the chunk size went out chunked: two data
\* frames and the terminating frame
C24_Witness ==
  /\ hpc = "sent" /\ SentChunked
  /\ request.data.k = "file" /\ request.data.size = 8193
  /\ Len(sent) = 3
  /\ sent[1].head = "2000\r\n" /\ sent[2].head = "1\r\n"
  /\ sent[3].head = "0\r\n"

\* The lengths of the model's string bodies, in decimal
DecText ==
  [n \in {0, 5, 6, 16} |->
     CASE n = 0 -> "0" [] n = 5 -> "5" [] n = 6 -> "6" [] n = 16 -> "16"]

\* The framing headers among the unredirected headers of a request
FramingHeaders(req) ==
  DOMAIN req.unredirected_hdrs \cap {"Content-length", "Transfer-encoding"}

HasData(req) == req.data.k # "NoneType"

CallerSet(req, name) == name \in DOMAIN req.headers

\* C25: do_request_() on a request that names a host.  With data, a
\* Content-type and no Content-length header it adds exactly one framing
\* header: Content-length with the length of the data for a string,
\* Transfer-Encoding: chunked for any other data.  It never adds both.  A
\* request with data and no Content-type header is rejected and gets no
\* framing header.  A request without data gets Content-length 0 if and only
\* if its method is PATCH, POST or PUT in any case of letters.  The headers
\* the caller has set stay as they are, and a request that names no host is
\* rejected before any header is added.
C25_HeaderSelection ==
  [][do_request_ =>
       LET added == FramingHeaders(request')
           hdrs == request'.unredirected_hdrs
       IN /\ request'.headers = request.headers
          /\ Cardinality(added) <= 1
          /\ request.host = "" => (hres' # "ok" /\ added = {})
          /\ (request.host # "" /\ HasData(request)
                /\ CallerSet(request, "Content-type")
                /\ ~CallerSet(request, "Content-length")) =>
               IF request.data.k \in {"str", "unicode"}
               THEN /\ added = {"Content-length"}
                    /\ hdrs["Content-length"] = DecText[Len(request.data.v)]
               ELSE /\ added = {"Transfer-encoding"}
                    /\ hdrs["Transfer-encoding"] = "chunked"
          /\ (HasData(request) /\ CallerSet(request, "Content-length")) =>
               added = {}
          /\ (HasData(request) /\ ~CallerSet(request, "Content-type")) =>
               (hres' # "ok" /\ hpc' = "rejected" /\ added = {})
          /\ (request.host # "" /\ ~HasData(request)) =>
               /\ "Transfer-encoding" \notin added
               /\ "Content-length" \in added <=>
                    request.method \in {"PATCH", "POST", "PUT", "patch",
                                        "post", "put", "Patch", "Post",
                                        "Put"}
               /\ "Content-length" \in added => hdrs["Content-length"] = "0"
    ]_vars

\* The handler accepted a request whose data is a file and gave it
\* Transfer-Encoding: chunked and no Content-length
C25_Witness ==
  /\ hpc = "handled"
  /\ request.data.k = "file"
  /\ "Content-type" \in DOMAIN request.headers
  /\ FramingHeaders(request) = {"Transfer-encoding"}
  /\ request.unredirected_hdrs["Transfer-encoding"] = "chunked"

=============================================================================
